---- MODULE Spec2Model ----
(***************************************************************************)
(* A model of oxihtml's arena document tree (src/dom.rs), of the           *)
(* html5lib-runner's concurrent execution engine                           *)
(* (src/bin/html5lib-runner.rs), of the test-format serializer             *)
(* (src/serialize.rs) and of the reader of tree-construction .dat files    *)
(* (src/html5lib.rs).                                                      *)
(*                                                                         *)
(* Conventions.                                                            *)
(*  - A Rust Vec is a TLA+ sequence, so the Rust index k is the model's    *)
(*    index k + 1.  A NodeId n of the model is the Rust NodeId n - 1, and  *)
(*    Option<NodeId>::None is None (0).                                    *)
(*  - Functions that take `&mut Vec<Node>` are operators from an arena to  *)
(*    the arena they leave behind; the actions apply them to the state.    *)
(*  - An index outside the arena panics in Rust; the actions draw only     *)
(*    identities that exist.                                               *)
(***************************************************************************)
EXTENDS Integers, Sequences, FiniteSets, TLC

VARIABLES
    arena,      \* Document.arena / DocumentFragment.arena : Vec<Node>
    root,       \* Document.root / DocumentFragment.root
    config,     \* Config: threads, max_failures, fail_fast
    files,      \* the discovered .dat files, in sorted discovery order
    pc,         \* main's position
    worker,     \* one entry per spawned thread
    rx,         \* the mpsc channel: Summaries sent and not yet received
    senders,    \* number of live Sender handles (tx and its clones)
    all,        \* main's merged Summary
    received,   \* ghost: the workers whose Summary was merged, in merge order
    reported,   \* what main prints: counts and the failure list shown
    testsuite,  \* the .test files of one JSON suite, its label and its kind
    sj,         \* run_*_suite's position: the files done and its Summary
    out,        \* what to_test_format returned for the arena, when it was called
    content,    \* the text given to a reader: a tree text, or a .dat file's content
    ret         \* what the reader returned for content, when it was called

vars == <<arena, root, config, files, pc, worker, rx, senders, all, received, reported,
          testsuite, sj, out, content, ret>>

domVars == <<arena, root>>
runVars == <<config, files, pc, worker, rx, senders, all, received, reported>>
suiteVars == <<testsuite, sj>>
serVars == <<out>>
readVars == <<content, ret>>

(***************************************************************************)
(* Bounds of the model.                                                    *)
(***************************************************************************)
MaxNodes == 3
MaxEdges == 3
MaxAttrs == 3

None == 0

(***************************************************************************)
(* Sequence helpers (Vec::iter().position, Vec::insert, Vec::remove).      *)
(***************************************************************************)
position(s, x) ==
    IF \E i \in 1..Len(s) : s[i] = x
    THEN CHOOSE i \in 1..Len(s) : s[i] = x /\ \A j \in 1..(i - 1) : s[j] # x
    ELSE None

VecInsert(s, i, x) == SubSeq(s, 1, i - 1) \o <<x>> \o SubSeq(s, i, Len(s))

VecRemove(s, i) == SubSeq(s, 1, i - 1) \o SubSeq(s, i + 1, Len(s))

(***************************************************************************)
(* src/dom.rs: the node data and the tree operations.                      *)
(***************************************************************************)
Namespaces == {"Html", "Svg"}

QualNames == {[ns |-> "Html", local |-> "template"], [ns |-> "Svg", local |-> "template"]}

\* Namespace::Other(s) is written "Other(s)".
AttrNames ==
    { [ns |-> "Html", local |-> "a"], [ns |-> "Html", local |-> "b"],
      [ns |-> "Other(xlink)", local |-> "a"] }

AttrValues == {"1", "2"}

Node(data) == [data |-> data, parent |-> None, children |-> <<>>]

ElementData(name) ==
    [kind |-> "Element", name |-> name, attrs |-> <<>>, template_contents |-> None]

NodeIds == 1..Len(arena)

IsElement(a, n) == a[n].data.kind = "Element"

new_empty(kind) == <<Node([kind |-> kind])>>

create_element(a, name) == Append(a, Node(ElementData(name)))

create_text(a, data) == Append(a, Node([kind |-> "Text", text |-> data]))

create_comment(a, data) == Append(a, Node([kind |-> "Comment", text |-> data]))

create_doctype(a, doctype) == Append(a, Node([kind |-> "Doctype", doctype |-> doctype]))

append_child(a, parent, child) ==
    LET a1 == [a EXCEPT ![child].parent = parent]
    IN  [a1 EXCEPT ![parent].children = Append(@, child)]

\* Mutant of insert_before: the reference is ignored.
insert_before_appends(a, parent, new_child, reference) ==
    append_child(a, parent, new_child)

insert_before(a, parent, new_child, reference) ==
    LET pos == IF reference = None THEN None ELSE position(a[parent].children, reference)
    IN  IF pos # None
        THEN LET a1 == [a EXCEPT ![new_child].parent = parent]
             IN  [a1 EXCEPT ![parent].children = VecInsert(@, pos, new_child)]
        ELSE append_child(a, parent, new_child)

detach(a, node) ==
    LET parent == a[node].parent
    IN  IF parent = None
        THEN a
        ELSE LET pos == position(a[parent].children, node)
                 a1 == IF pos # None
                       THEN [a EXCEPT ![parent].children = VecRemove(@, pos)]
                       ELSE a
             IN  [a1 EXCEPT ![node].parent = None]

attr_position(attrs, name) ==
    IF \E i \in 1..Len(attrs) : attrs[i].name = name
    THEN CHOOSE i \in 1..Len(attrs) :
             attrs[i].name = name /\ \A j \in 1..(i - 1) : attrs[j].name # name
    ELSE None

\* Mutant of set_attr: an attribute of an equal local name is taken for the
\* existing one, whatever its namespace.
set_attr_by_local_name(a, element, attr) ==
    IF ~IsElement(a, element)
    THEN a
    ELSE LET attrs == a[element].data.attrs
             found == {i \in 1..Len(attrs) : attrs[i].name.local = attr.name.local}
         IN  IF found # {}
             THEN [a EXCEPT ![element].data.attrs[CHOOSE i \in found :
                                                     \A j \in found : i <= j].value =
                               attr.value]
             ELSE [a EXCEPT ![element].data.attrs = Append(@, attr)]

\* Mutant of set_attr: the attribute is pushed without looking for its name.
set_attr_pushes(a, element, attr) ==
    IF ~IsElement(a, element)
    THEN a
    ELSE [a EXCEPT ![element].data.attrs = Append(@, attr)]

set_attr(a, element, attr) ==
    IF ~IsElement(a, element)
    THEN a
    ELSE LET attrs == a[element].data.attrs
             i == attr_position(attrs, attr.name)
         IN  IF i # None
             THEN [a EXCEPT ![element].data.attrs[i].value = attr.value]
             ELSE [a EXCEPT ![element].data.attrs = Append(@, attr)]

\* Mutant of ensure_template_contents: the identity is recorded but the fragment
\* is not pushed.
ensure_template_contents_unpushed(a, template) ==
    IF ~IsElement(a, template)
    THEN [arena |-> a, id |-> template]
    ELSE LET existing == a[template].data.template_contents
         IN  IF existing # None
             THEN [arena |-> a, id |-> existing]
             ELSE [arena |-> [a EXCEPT ![template].data.template_contents = Len(a) + 1],
                   id |-> Len(a) + 1]

\* Mutant of ensure_template_contents: a recorded identity is not looked up, every
\* call on an element makes a fragment.
ensure_template_contents_fresh(a, template) ==
    IF ~IsElement(a, template)
    THEN [arena |-> a, id |-> template]
    ELSE LET id == Len(a) + 1
             a1 == Append(a, Node([kind |-> "DocumentFragment"]))
         IN  [arena |-> [a1 EXCEPT ![template].data.template_contents = id],
              id |-> id]

\* The arena and the returned identity.
ensure_template_contents(a, template) ==
    IF ~IsElement(a, template)
    THEN [arena |-> a, id |-> template]
    ELSE LET existing == a[template].data.template_contents
         IN  IF existing # None
             THEN [arena |-> a, id |-> existing]
             ELSE LET id == Len(a) + 1
                      a1 == Append(a, Node([kind |-> "DocumentFragment"]))
                  IN  [arena |-> [a1 EXCEPT ![template].data.template_contents = id],
                       id |-> id]

(***************************************************************************)
(* The tree operations as actions on a document or a fragment.             *)
(***************************************************************************)
CanGrow == Len(arena) < MaxNodes

RECURSIVE TotalChildren(_, _)
TotalChildren(a, n) == IF n = 0 THEN 0 ELSE Len(a[n].children) + TotalChildren(a, n - 1)

\* The children lists grow without bound (a child may be appended again and
\* again); the model stops at MaxEdges entries over the whole arena.
HasRoom == TotalChildren(arena, Len(arena)) < MaxEdges

CreateElement ==
    /\ CanGrow
    /\ \E name \in QualNames : arena' = create_element(arena, name)
    /\ UNCHANGED <<root, runVars, suiteVars, serVars, readVars>>

CreateText ==
    /\ CanGrow
    /\ arena' = create_text(arena, "x")
    /\ UNCHANGED <<root, runVars, suiteVars, serVars, readVars>>

CreateComment ==
    /\ CanGrow
    /\ arena' = create_comment(arena, "x")
    /\ UNCHANGED <<root, runVars, suiteVars, serVars, readVars>>

\* Only Document has create_doctype.
CreateDoctype ==
    /\ CanGrow
    /\ arena[root].data.kind = "Document"
    /\ arena' = create_doctype(arena, [name |-> "html", public_id |-> "", system_id |-> ""])
    /\ UNCHANGED <<root, runVars, suiteVars, serVars, readVars>>

AppendChild ==
    /\ \E parent \in NodeIds, child \in NodeIds :
          /\ HasRoom
          /\ arena' = append_child(arena, parent, child)
    /\ UNCHANGED <<root, runVars, suiteVars, serVars, readVars>>

InsertBefore ==
    /\ \E parent \in NodeIds, new_child \in NodeIds, reference \in NodeIds \cup {None} :
          /\ HasRoom
          /\ arena' = insert_before(arena, parent, new_child, reference)
    /\ UNCHANGED <<root, runVars, suiteVars, serVars, readVars>>

Detach ==
    /\ \E node \in NodeIds : arena' = detach(arena, node)
    /\ UNCHANGED <<root, runVars, suiteVars, serVars, readVars>>

RECURSIVE TotalAttrs(_, _)
TotalAttrs(a, n) ==
    IF n = 0
    THEN 0
    ELSE (IF IsElement(a, n) THEN Len(a[n].data.attrs) ELSE 0) + TotalAttrs(a, n - 1)

\* The model stops pushing attributes at MaxAttrs over the whole arena; a value is
\* replaced at any time.
SetAttr ==
    /\ \E element \in NodeIds, name \in AttrNames, value \in AttrValues :
          /\ (/\ IsElement(arena, element)
              /\ attr_position(arena[element].data.attrs, name) = None)
                => TotalAttrs(arena, Len(arena)) < MaxAttrs
          /\ arena' = set_attr(arena, element, [name |-> name, value |-> value])
    /\ UNCHANGED <<root, runVars, suiteVars, serVars, readVars>>

EnsureTemplateContents ==
    /\ \E template \in NodeIds :
          /\ IsElement(arena, template) /\ arena[template].data.template_contents = None
                => CanGrow
          /\ arena' = ensure_template_contents(arena, template).arena
    /\ UNCHANGED <<root, runVars, suiteVars, serVars, readVars>>

\* to_test_format has not been called.
SerIdle == out = [called |-> FALSE, text |-> <<>>]

\* No JSON suite is running.
SuiteIdle ==
    /\ testsuite = [label |-> "none", per_state |-> FALSE, discovered |-> FALSE, files |-> <<>>]
    /\ sj = [pc |-> "idle", f |-> 0,
             summary |-> [total |-> 0, passed |-> 0, failed |-> 0, failures |-> <<>>]]

\* No reader has been given a text.
ReadIdle ==
    /\ content = <<>>
    /\ ret = [called |-> FALSE, value |-> <<>>]

\* The runner has not started, no suite is running, nothing was serialized.
EngineIdle ==
    /\ SuiteIdle
    /\ SerIdle
    /\ config = [threads |-> 1, max_failures |-> 1, fail_fast |-> FALSE]
    /\ files = <<>>
    /\ pc = "idle"
    /\ worker = <<>>
    /\ rx = <<>>
    /\ senders = 0
    /\ all = [total |-> 0, passed |-> 0, failed |-> 0, failures |-> <<>>]
    /\ received = <<>>
    /\ reported = [lines |-> <<>>, failures |-> <<>>, exit_fail |-> FALSE]

RunIdle ==
    /\ EngineIdle
    /\ ReadIdle

InitDom ==
    /\ \E kind \in {"Document", "DocumentFragment"} : arena = new_empty(kind)
    /\ root = 1
    /\ RunIdle

NextDom ==
    \/ CreateElement
    \/ CreateText
    \/ CreateComment
    \/ CreateDoctype
    \/ AppendChild
    \/ InsertBefore
    \/ Detach
    \/ EnsureTemplateContents

SpecDom == InitDom /\ [][NextDom]_vars

(***************************************************************************)
(* Attributes: nodes are created and attributes set, no node is linked.    *)
(***************************************************************************)
NextAttr ==
    \/ CreateElement
    \/ CreateText
    \/ SetAttr

SpecAttr == InitDom /\ [][NextAttr]_vars

(***************************************************************************)
(* The same operations over larger arenas with fewer links: elements of    *)
(* one name and their template contents, under a document.                 *)
(***************************************************************************)
MaxTreeNodes == 5
MaxTreeEdges == 3

TreeCanGrow == Len(arena) < MaxTreeNodes

TreeHasRoom == TotalChildren(arena, Len(arena)) < MaxTreeEdges

TreeCreateElement ==
    /\ TreeCanGrow
    /\ arena' = create_element(arena, [ns |-> "Html", local |-> "template"])
    /\ UNCHANGED <<root, runVars, suiteVars, serVars, readVars>>

TreeAppendChild ==
    /\ \E parent \in NodeIds, child \in NodeIds :
          /\ TreeHasRoom
          /\ arena' = append_child(arena, parent, child)
    /\ UNCHANGED <<root, runVars, suiteVars, serVars, readVars>>

TreeInsertBefore ==
    /\ \E parent \in NodeIds, new_child \in NodeIds, reference \in NodeIds \cup {None} :
          /\ TreeHasRoom
          /\ arena' = insert_before(arena, parent, new_child, reference)
    /\ UNCHANGED <<root, runVars, suiteVars, serVars, readVars>>

TreeDetach ==
    /\ \E node \in NodeIds : arena' = detach(arena, node)
    /\ UNCHANGED <<root, runVars, suiteVars, serVars, readVars>>

TreeEnsureTemplateContents ==
    /\ \E template \in NodeIds :
          /\ IsElement(arena, template) /\ arena[template].data.template_contents = None
                => TreeCanGrow
          /\ arena' = ensure_template_contents(arena, template).arena
    /\ UNCHANGED <<root, runVars, suiteVars, serVars, readVars>>

InitTree ==
    /\ arena = new_empty("Document")
    /\ root = 1
    /\ RunIdle

NextTree ==
    \/ TreeCreateElement
    \/ TreeAppendChild
    \/ TreeInsertBefore
    \/ TreeDetach
    \/ TreeEnsureTemplateContents

SpecTree == InitTree /\ [][NextTree]_vars


(***************************************************************************)
(* src/bin/html5lib-runner.rs: fixtures, Summary and Failure.              *)
(*                                                                         *)
(* A path is the file's index in the sorted discovery order.  A .dat file  *)
(* is what parse_tree_construction_dat makes of it: an error, or its       *)
(* cases.  A case carries its script_directive and its normalized expected *)
(* text (normalize_tree_text(&case.expected)).  A Failure keeps file,      *)
(* case_index and script; input, expected and actual are functions of      *)
(* these three and are left out.                                           *)
(***************************************************************************)
MaxFiles == 3
MaxThreads == 2
MaxFailures == 2

Min(a, b) == IF a < b THEN a ELSE b

saturating_sub(a, b) == IF a > b THEN a - b ELSE 0

truncate(s, n) == IF Len(s) > n THEN SubSeq(s, 1, n) ELSE s

Case(d, expected_norm) == [script_directive |-> d, expected_norm |-> expected_norm]

\* src/lib.rs: Parser::parse_document and Parser::parse_fragment return an empty
\* tree for every input and every Options; to_test_format gives it no line.
actual_norm(case, scripting_enabled) == ""

Unreadable == [readable |-> FALSE, cases |-> <<>>]

Dat(cases) == [readable |-> TRUE, cases |-> cases]

\* The .dat files a run may find.
TreeCorpus ==
    { Unreadable,
      Dat(<<Case("Off", "")>>),
      Dat(<<Case("Both", "| <p>")>>),
      Dat(<<Case("On", "| <p>"), Case("Both", "")>>),
      Dat(<<Case("Both", ""), Case("Off", "| <p>")>>) }

SummaryDefault == [total |-> 0, passed |-> 0, failed |-> 0, failures |-> <<>>]

Failure(file, case_index, script) ==
    [file |-> file, case_index |-> case_index, script |-> script]

script_modes(d) ==
    CASE d = "On" -> <<<<TRUE, "on">>>>
      [] d = "Off" -> <<<<FALSE, "off">>>>
      [] d = "Both" -> <<<<TRUE, "on">>, <<FALSE, "off">>>>

(***************************************************************************)
(* run_tree_file.  case_loop is the pair of loops over the cases and their *)
(* script modes, from case i (1-based here, i - 1 in the Failure) and mode *)
(* k on; st.summary is the Summary so far and st.runs the executions so    *)
(* far (one entry per Parser::new), which the code does not keep.          *)
(***************************************************************************)
RECURSIVE case_loop(_, _, _, _, _, _)
case_loop(path, i, k, st, max_failures, fail_fast) ==
    LET cases == files[path].cases
    IN  IF i > Len(cases)
        THEN st
        ELSE LET modes == script_modes(cases[i].script_directive)
             IN  IF k > Len(modes)
                 THEN case_loop(path, i + 1, 1, st, max_failures, fail_fast)
                 ELSE LET scripting_enabled == modes[k][1]
                          label == modes[k][2]
                          runs == Append(st.runs, <<path, i - 1, label>>)
                          s1 == [st.summary EXCEPT !.total = @ + 1]
                      IN  IF cases[i].expected_norm = actual_norm(cases[i], scripting_enabled)
                          THEN case_loop(path, i, k + 1,
                                         [summary |-> [s1 EXCEPT !.passed = @ + 1],
                                          runs |-> runs],
                                         max_failures, fail_fast)
                          ELSE LET s2 == [s1 EXCEPT !.failed = @ + 1]
                                   s3 == IF Len(s2.failures) < max_failures
                                         THEN [s2 EXCEPT !.failures =
                                                  Append(@, Failure(path, i - 1, label))]
                                         ELSE s2
                                   st3 == [summary |-> s3, runs |-> runs]
                               IN  IF fail_fast
                                   THEN st3
                                   ELSE case_loop(path, i, k + 1, st3,
                                                  max_failures, fail_fast)

\* Mutant of tree_file: an unreadable file is counted in total but not in failed.
tree_file_unreadable_uncounted(path, max_failures, fail_fast) ==
    IF ~files[path].readable
    THEN [summary |-> [total |-> 1, passed |-> 0, failed |-> 0,
                       failures |-> <<Failure(path, 0, "n/a")>>],
          runs |-> <<>>]
    ELSE case_loop(path, 1, 1, [summary |-> SummaryDefault, runs |-> <<>>],
                   max_failures, fail_fast)

tree_file(path, max_failures, fail_fast) ==
    IF ~files[path].readable
    THEN [summary |-> [total |-> 1, passed |-> 0, failed |-> 1,
                       failures |-> <<Failure(path, 0, "n/a")>>],
          runs |-> <<>>]
    ELSE case_loop(path, 1, 1, [summary |-> SummaryDefault, runs |-> <<>>],
                   max_failures, fail_fast)

run_tree_file(path, max_failures, fail_fast) ==
    tree_file(path, max_failures, fail_fast).summary

(***************************************************************************)
(* main: chunking, the worker closure, the merge loop.                     *)
(***************************************************************************)
Paths == [i \in 1..Len(files) |-> i]

threads == Min(config.threads, Len(files))

\* Mutant of chunk_size: the division rounds down.
chunk_size_floor == Len(files) \div threads

chunk_size == (Len(files) + threads - 1) \div threads

\* slice::chunks
RECURSIVE chunks(_, _)
chunks(s, size) ==
    IF Len(s) = 0
    THEN <<>>
    ELSE <<SubSeq(s, 1, Min(size, Len(s)))>>
             \o chunks(SubSeq(s, Min(size, Len(s)) + 1, Len(s)), size)

\* Mutant of worker_iteration: the loop is left on --fail-fast only.
worker_iteration_fail_fast_only(w, max_failures, fail_fast) ==
    LET path == w.paths[w.next]
        r == tree_file(path, saturating_sub(max_failures, Len(w.summary.failures)),
                       fail_fast)
        s == r.summary
        summary == [total |-> w.summary.total + s.total,
                    passed |-> w.summary.passed + s.passed,
                    failed |-> w.summary.failed + s.failed,
                    failures |-> w.summary.failures \o s.failures]
        break == fail_fast /\ summary.failed > 0
    IN  [w EXCEPT !.summary = summary,
                  !.runs = @ \o r.runs,
                  !.next = @ + 1,
                  !.pc = IF break \/ w.next + 1 > Len(w.paths) THEN "send" ELSE "run"]

\* Mutant of worker_iteration: the loop is left at the failure cap only.
worker_iteration_cap_only(w, max_failures, fail_fast) ==
    LET path == w.paths[w.next]
        r == tree_file(path, saturating_sub(max_failures, Len(w.summary.failures)),
                       fail_fast)
        s == r.summary
        summary == [total |-> w.summary.total + s.total,
                    passed |-> w.summary.passed + s.passed,
                    failed |-> w.summary.failed + s.failed,
                    failures |-> w.summary.failures \o s.failures]
        break == Len(summary.failures) >= max_failures
    IN  [w EXCEPT !.summary = summary,
                  !.runs = @ \o r.runs,
                  !.next = @ + 1,
                  !.pc = IF break \/ w.next + 1 > Len(w.paths) THEN "send" ELSE "run"]

\* One iteration of the closure's `for path in paths`.
worker_iteration(w, max_failures, fail_fast) ==
    LET path == w.paths[w.next]
        r == tree_file(path, saturating_sub(max_failures, Len(w.summary.failures)),
                       fail_fast)
        s == r.summary
        summary == [total |-> w.summary.total + s.total,
                    passed |-> w.summary.passed + s.passed,
                    failed |-> w.summary.failed + s.failed,
                    failures |-> w.summary.failures \o s.failures]
        break == \/ fail_fast /\ summary.failed > 0
                 \/ Len(summary.failures) >= max_failures
    IN  [w EXCEPT !.summary = summary,
                  !.runs = @ \o r.runs,
                  !.next = @ + 1,
                  !.pc = IF break \/ w.next + 1 > Len(w.paths) THEN "send" ELSE "run"]

\* Mutant of merge: the failure lists are concatenated and not truncated.
merge_untruncated(a, s, max_failures) ==
    [total |-> a.total + s.total,
     passed |-> a.passed + s.passed,
     failed |-> a.failed + s.failed,
     failures |-> IF Len(a.failures) < max_failures
                  THEN a.failures \o s.failures
                  ELSE a.failures]

\* Mutant of merge: a Summary that arrives when the failure list is full is
\* dropped, counts included.
merge_skips_when_full(a, s, max_failures) ==
    IF Len(a.failures) < max_failures
    THEN [total |-> a.total + s.total,
          passed |-> a.passed + s.passed,
          failed |-> a.failed + s.failed,
          failures |-> truncate(a.failures \o s.failures, max_failures)]
    ELSE a

\* The body of `for s in rx`.
merge(a, s, max_failures) ==
    [total |-> a.total + s.total,
     passed |-> a.passed + s.passed,
     failed |-> a.failed + s.failed,
     failures |-> IF Len(a.failures) < max_failures
                  THEN truncate(a.failures \o s.failures, max_failures)
                  ELSE a.failures]

Begin ==
    /\ pc = "main"
    /\ IF files = <<>>
       THEN pc' = "report" /\ senders' = senders
       ELSE pc' = "spawn" /\ senders' = 1
    /\ UNCHANGED <<domVars, suiteVars, serVars, readVars, config, files, worker, rx, all, received, reported>>

\* tx.clone() and thread::spawn for the next chunk.
Spawn ==
    /\ pc = "spawn"
    /\ Len(worker) < Len(chunks(Paths, chunk_size))
    /\ worker' = Append(worker,
                        [paths |-> chunks(Paths, chunk_size)[Len(worker) + 1],
                         next |-> 1, summary |-> SummaryDefault, runs |-> <<>>,
                         pc |-> "run"])
    /\ senders' = senders + 1
    /\ UNCHANGED <<domVars, suiteVars, serVars, readVars, config, files, pc, rx, all, received, reported>>

\* Mutant of DropTx: main keeps its own Sender.
DropTx_keeps_sender ==
    /\ pc = "spawn"
    /\ Len(worker) = Len(chunks(Paths, chunk_size))
    /\ pc' = "recv"
    /\ UNCHANGED <<domVars, suiteVars, serVars, readVars, config, files, worker, rx, senders, all, received, reported>>

DropTx ==
    /\ pc = "spawn"
    /\ Len(worker) = Len(chunks(Paths, chunk_size))
    /\ senders' = senders - 1
    /\ pc' = "recv"
    /\ UNCHANGED <<domVars, suiteVars, serVars, readVars, config, files, worker, rx, all, received, reported>>

WorkerRunFile(w) ==
    /\ worker[w].pc = "run"
    /\ worker' = [worker EXCEPT
                     ![w] = worker_iteration(@, config.max_failures, config.fail_fast)]
    /\ UNCHANGED <<domVars, suiteVars, serVars, readVars, config, files, pc, rx, senders, all, received, reported>>

\* tx.send(summary); `from` is not part of the message.
WorkerSend(w) ==
    /\ worker[w].pc = "send"
    /\ rx' = Append(rx, [from |-> w, summary |-> worker[w].summary])
    /\ worker' = [worker EXCEPT ![w].pc = "exit"]
    /\ UNCHANGED <<domVars, suiteVars, serVars, readVars, config, files, pc, senders, all, received, reported>>

\* The closure returns and its Sender is dropped.
WorkerExit(w) ==
    /\ worker[w].pc = "exit"
    /\ senders' = senders - 1
    /\ worker' = [worker EXCEPT ![w].pc = "done"]
    /\ UNCHANGED <<domVars, suiteVars, serVars, readVars, config, files, pc, rx, all, received, reported>>

Recv ==
    /\ pc = "recv"
    /\ rx # <<>>
    /\ all' = merge(all, Head(rx).summary, config.max_failures)
    /\ received' = Append(received, Head(rx).from)
    /\ rx' = Tail(rx)
    /\ UNCHANGED <<domVars, suiteVars, serVars, readVars, config, files, pc, worker, senders, reported>>

\* The iterator over rx ends when the channel is empty and every Sender is gone.
RecvEnd ==
    /\ pc = "recv"
    /\ rx = <<>>
    /\ senders = 0
    /\ pc' = "report"
    /\ UNCHANGED <<domVars, suiteVars, serVars, readVars, config, files, worker, rx, senders, all, received, reported>>

(***************************************************************************)
(* run_tokenizer_suite and run_serializer_suite.  A .test file is what     *)
(* parse_json_file and the lookup of its top-level `tests` array make of   *)
(* it: kind is "read error", "JSON parse error", "not an object",          *)
(* "missing tests" or "tests"; a test is the length of its initialStates   *)
(* array (0: absent or empty).  Execution is not implemented in the code:  *)
(* every test counts as failed.                                            *)
(***************************************************************************)
JsonFile(kind, tests) == [kind |-> kind, tests |-> tests]

Suite(discovered, fs) == [discovered |-> discovered, files |-> fs]

JsonCorpus ==
    { Suite(FALSE, <<>>),
      Suite(TRUE, <<JsonFile("read error", <<>>), JsonFile("tests", <<0, 2>>)>>) }

\* Mutant of count_failed: the failure is recorded whatever the list holds.
count_failed_uncapped(s, failure, max_failures) ==
    [s EXCEPT !.total = @ + 1,
              !.failed = @ + 1,
              !.failures = Append(@, failure)]

count_failed(s, failure, max_failures) ==
    [s EXCEPT !.total = @ + 1,
              !.failed = @ + 1,
              !.failures = IF Len(@) < max_failures THEN Append(@, failure) ELSE @]

\* The loops over files f, tests t and variants v of a suite named label;
\* the tokenizer suite runs a test once per initial state, the serializer once.
RECURSIVE json_loop(_, _, _, _, _, _, _, _, _)
json_loop(label, fs, f, t, v, s, max_failures, fail_fast, per_state) ==
    IF f > Len(fs)
    THEN s
    ELSE IF fs[f].kind # "tests"
    THEN json_loop(label, fs, f + 1, 1, 1,
                   count_failed(s, Failure(<<label, f>>, 0, "n/a"), max_failures),
                   max_failures, fail_fast, per_state)
    ELSE IF t > Len(fs[f].tests)
    THEN json_loop(label, fs, f + 1, 1, 1, s, max_failures, fail_fast, per_state)
    ELSE LET variants == IF per_state /\ fs[f].tests[t] > 0 THEN fs[f].tests[t] ELSE 1
         IN  IF v > variants
             THEN json_loop(label, fs, f, t + 1, 1, s, max_failures, fail_fast, per_state)
             ELSE LET s1 == count_failed(s, Failure(<<label, f>>, t - 1, "n/a"),
                                         max_failures)
                  IN  IF fail_fast
                      THEN s1
                      ELSE json_loop(label, fs, f, t, v + 1, s1, max_failures,
                                     fail_fast, per_state)

json_suite(label, suite, max_failures, fail_fast, per_state) ==
    IF ~suite.discovered
    THEN [total |-> 1, passed |-> 0, failed |-> 1,
          failures |-> <<Failure(<<label>>, 0, "n/a")>>]
    ELSE json_loop(label, suite.files, 1, 1, 1, SummaryDefault, max_failures,
                   fail_fast, per_state)

run_tokenizer_suite(suite, max_failures, fail_fast) ==
    json_suite("tokenizer", suite, max_failures, fail_fast, TRUE)

run_serializer_suite(suite, max_failures, fail_fast) ==
    json_suite("serializer", suite, max_failures, fail_fast, FALSE)

NoReport == [lines |-> <<>>, failures |-> <<>>, exit_fail |-> FALSE]

\* What main prints after the merge loop.  mode_tokenizer, mode_serializer and
\* the .test files are read here for the first time, and are drawn here.
report(a, mode_tokenizer, tok_suite, mode_serializer, ser_suite, max_failures, fail_fast) ==
    LET tok == run_tokenizer_suite(tok_suite, max_failures, fail_fast)
        ser == run_serializer_suite(ser_suite, max_failures, fail_fast)
        f1 == IF mode_tokenizer THEN a.failures \o tok.failures ELSE a.failures
        f2 == IF mode_serializer THEN f1 \o ser.failures ELSE f1
        shown == IF f2 # <<>> THEN truncate(f2, max_failures) ELSE f2
    IN  [lines |-> <<<<"tree-construction", a.passed, a.total, a.failed>>>>
                    \o (IF mode_tokenizer
                        THEN <<<<"tokenizer", tok.passed, tok.total, tok.failed>>>>
                        ELSE <<>>)
                    \o (IF mode_serializer
                        THEN <<<<"serializer", ser.passed, ser.total, ser.failed>>>>
                        ELSE <<>>),
         failures |-> shown,
         exit_fail |-> \/ a.failed > 0
                       \/ mode_tokenizer /\ tok.failed > 0
                       \/ mode_serializer /\ ser.failed > 0]

Report ==
    /\ pc = "report"
    /\ \E mode_tokenizer \in BOOLEAN, mode_serializer \in BOOLEAN,
          tok_suite \in JsonCorpus, ser_suite \in JsonCorpus :
          reported' = report(all, mode_tokenizer, tok_suite, mode_serializer, ser_suite,
                             config.max_failures, config.fail_fast)
    /\ all' = [all EXCEPT !.failures = reported'.failures]
    /\ pc' = "done"
    /\ UNCHANGED <<domVars, suiteVars, serVars, readVars, config, files, worker, rx, senders, received>>

\* parse_args: threads.max(1), max_failures.max(1)
parse_args(t, m, ff) ==
    [threads |-> IF t < 1 THEN 1 ELSE t,
     max_failures |-> IF m < 1 THEN 1 ELSE m,
     fail_fast |-> ff]

InitRun ==
    /\ arena = new_empty("Document")
    /\ root = 1
    /\ \E n \in 0..MaxFiles : files \in [1..n -> TreeCorpus]
    /\ \E t \in 0..MaxThreads, m \in 0..MaxFailures, ff \in BOOLEAN :
          config = parse_args(t, m, ff)
    /\ pc = "main"
    /\ worker = <<>>
    /\ rx = <<>>
    /\ senders = 0
    /\ all = SummaryDefault
    /\ received = <<>>
    /\ reported = NoReport
    /\ SuiteIdle
    /\ SerIdle
    /\ ReadIdle

NextRun ==
    \/ Begin
    \/ Spawn
    \/ DropTx
    \/ \E w \in 1..Len(worker) : WorkerRunFile(w)
    \/ \E w \in 1..Len(worker) : WorkerSend(w)
    \/ \E w \in 1..Len(worker) : WorkerExit(w)
    \/ Recv
    \/ RecvEnd
    \/ Report

SpecRun == InitRun /\ [][NextRun]_vars
(***************************************************************************)
(* The chunking alone, over longer file lists: main up to the receive loop.*)
(***************************************************************************)
MaxChunkFiles == 6
MaxChunkThreads == 7

InitChunk ==
    /\ arena = new_empty("Document")
    /\ root = 1
    /\ \E n \in 0..MaxChunkFiles : files = [i \in 1..n |-> Dat(<<Case("Off", "")>>)]
    /\ \E t \in 0..MaxChunkThreads : config = parse_args(t, 1, FALSE)
    /\ pc = "main"
    /\ worker = <<>>
    /\ rx = <<>>
    /\ senders = 0
    /\ all = SummaryDefault
    /\ received = <<>>
    /\ reported = NoReport
    /\ SuiteIdle
    /\ SerIdle
    /\ ReadIdle

NextChunk ==
    \/ Begin
    \/ Spawn
    \/ DropTx

SpecChunk == InitChunk /\ [][NextChunk]_vars

(***************************************************************************)
(* The file loops one file at a time: main with one worker thread, then    *)
(* one JSON suite (run_tokenizer_suite or run_serializer_suite), each      *)
(* iteration of `for path in files` being one step.                        *)
(***************************************************************************)
MaxSuiteTreeFiles == 2
MaxSuiteFiles == 2

SuiteTreeCorpus == {Unreadable, Dat(<<Case("Both", "| <p>")>>)}

SuiteJsonFiles ==
    { JsonFile("read error", <<>>), JsonFile("JSON parse error", <<>>),
      JsonFile("missing tests", <<>>), JsonFile("tests", <<0, 2>>) }

\* discover_*_files fails, or the suite function reaches its file loop.
SuiteBegin ==
    /\ pc = "report"
    /\ sj.pc = "start"
    /\ sj' = IF ~testsuite.discovered
             THEN [pc |-> "done", f |-> 0,
                   summary |-> json_suite(testsuite.label, testsuite, config.max_failures,
                                          config.fail_fast, testsuite.per_state)]
             ELSE [sj EXCEPT !.pc = "loop"]
    /\ UNCHANGED <<domVars, runVars, serVars, readVars, testsuite>>

\* One iteration of `for path in files` of the suite function, on file sj.f + 1;
\* with fail_fast the first test executed returns from the function.
SuiteFile ==
    /\ sj.pc = "loop"
    /\ sj.f < Len(testsuite.files)
    /\ LET f == sj.f + 1
           returns == /\ config.fail_fast
                      /\ testsuite.files[f].kind = "tests"
                      /\ Len(testsuite.files[f].tests) > 0
       IN  sj' = [pc |-> IF returns THEN "done" ELSE "loop",
                  f |-> f,
                  summary |-> json_loop(testsuite.label, SubSeq(testsuite.files, 1, f), f, 1, 1,
                                        sj.summary, config.max_failures,
                                        config.fail_fast, testsuite.per_state)]
    /\ UNCHANGED <<domVars, runVars, serVars, readVars, testsuite>>

\* The file loop ends and the suite function returns its Summary.
SuiteEnd ==
    /\ sj.pc = "loop"
    /\ sj.f = Len(testsuite.files)
    /\ sj' = [sj EXCEPT !.pc = "done"]
    /\ UNCHANGED <<domVars, runVars, serVars, readVars, testsuite>>

InitSuite ==
    /\ arena = new_empty("Document")
    /\ root = 1
    /\ \E n \in 0..MaxSuiteTreeFiles : files \in [1..n -> SuiteTreeCorpus]
    /\ \E m \in 0..MaxFailures, ff \in BOOLEAN : config = parse_args(1, m, ff)
    /\ pc = "main"
    /\ worker = <<>>
    /\ rx = <<>>
    /\ senders = 0
    /\ all = SummaryDefault
    /\ received = <<>>
    /\ reported = NoReport
    /\ \E per_state \in BOOLEAN, discovered \in BOOLEAN, n \in 0..MaxSuiteFiles :
          \E fs \in [1..n -> SuiteJsonFiles] :
             /\ ~discovered => fs = <<>>
             /\ testsuite = [label |-> IF per_state THEN "tokenizer" ELSE "serializer",
                         per_state |-> per_state, discovered |-> discovered,
                         files |-> fs]
    /\ sj = [pc |-> "start", f |-> 0, summary |-> SummaryDefault]
    /\ SerIdle
    /\ ReadIdle

NextSuite ==
    \/ Begin
    \/ Spawn
    \/ DropTx
    \/ \E w \in 1..Len(worker) : WorkerRunFile(w)
    \/ \E w \in 1..Len(worker) : WorkerSend(w)
    \/ \E w \in 1..Len(worker) : WorkerExit(w)
    \/ Recv
    \/ RecvEnd
    \/ SuiteBegin
    \/ SuiteFile
    \/ SuiteEnd

SpecSuite == InitSuite /\ [][NextSuite]_vars

(***************************************************************************)
(* src/serialize.rs.                                                       *)
(*                                                                         *)
(* A String the serializer reads or writes is the sequence of its chars; a *)
(* char is a one-character string, or "U+..." for a char outside ASCII.    *)
(* Chars turns a literal of the source into such a sequence.               *)
(***************************************************************************)
Chars(s) == [i \in 1..Len(s) |-> SubSeq(s, i, i)]

\* The chars U+0020..U+005F and U+0061..U+007E in the order of their values.
AsciiLow == " !\"#$%&'()*+,-./0123456789:;<=>?@ABCDEFGHIJKLMNOPQRSTUVWXYZ[\\]^_"

AsciiHigh == "abcdefghijklmnopqrstuvwxyz{|}~"

\* The Unicode scalar value of a char.
CodePoint(ch) ==
    CASE ch = "U+FF5E" -> 65374
      [] ch = "U+1F600" -> 128512
      [] ch = "\n" -> 10
      [] \E i \in 1..Len(AsciiLow) : SubSeq(AsciiLow, i, i) = ch ->
            31 + CHOOSE i \in 1..Len(AsciiLow) : SubSeq(AsciiLow, i, i) = ch
      [] OTHER -> 96 + CHOOSE i \in 1..Len(AsciiHigh) : SubSeq(AsciiHigh, i, i) = ch

\* char::encode_utf16: one code unit, or a surrogate pair above U+FFFF.
encode_utf16(ch) ==
    LET cp == CodePoint(ch)
    IN  IF cp < 65536
        THEN <<cp>>
        ELSE <<55296 + ((cp - 65536) \div 1024), 56320 + ((cp - 65536) % 1024)>>

namespace_prefix(ns) ==
    CASE ns = "Html" -> ""
      [] ns = "Svg" -> "svg "
      [] ns = "MathMl" -> "math "
      [] ns = "Other(xlink)" -> "xlink "
      [] ns = "Other(xml)" -> "xml "
      [] ns = "Other(xmlns)" -> "xmlns "
      [] OTHER -> ""

qualified_name(name) == Chars(namespace_prefix(name.ns)) \o name.local

is_template_html_ns(node) ==
    /\ node.data.kind = "Element"
    /\ node.data.name.ns = "Html"
    /\ node.data.name.local = Chars("template")

\* Mutant of utf16_sort_key: the key is the sequence of scalar values.
RECURSIVE scalar_sort_key(_)
scalar_sort_key(s) ==
    IF s = <<>> THEN <<>> ELSE <<CodePoint(Head(s))>> \o scalar_sort_key(Tail(s))

RECURSIVE utf16_sort_key(_)
utf16_sort_key(s) ==
    IF s = <<>> THEN <<>> ELSE encode_utf16(Head(s)) \o utf16_sort_key(Tail(s))

\* Ord for Vec<u16>: a.cmp(&b) = Less.
VecLess(a, b) ==
    \E k \in 0..Len(a) :
       /\ k <= Len(b)
       /\ \A j \in 1..k : a[j] = b[j]
       /\ IF k = Len(a) THEN k < Len(b) ELSE k < Len(b) /\ a[k + 1] < b[k + 1]

\* slice::sort_by is stable: an entry goes behind the entries that are not greater.
RECURSIVE stable_sort_by_key(_)
stable_sort_by_key(s) ==
    IF s = <<>>
    THEN <<>>
    ELSE LET sorted == stable_sort_by_key(SubSeq(s, 1, Len(s) - 1))
             x == s[Len(s)]
             n == Cardinality({i \in 1..Len(sorted) : ~VecLess(x.key, sorted[i].key)})
         IN  SubSeq(sorted, 1, n) \o <<x>> \o SubSeq(sorted, n + 1, Len(sorted))

sort_attrs_for_test_output(attrs) ==
    stable_sort_by_key(
        [i \in 1..Len(attrs) |->
            [key |-> utf16_sort_key(qualified_name(attrs[i].name)),
             display |-> qualified_name(attrs[i].name),
             value |-> attrs[i].value]])

\* Mutant of doctype_to_test_format: the identifiers are written when both are set.
doctype_ids_when_both(dt) ==
    IF dt.public_id = <<>> \/ dt.system_id = <<>>
    THEN Chars("<!DOCTYPE ") \o dt.name \o Chars(">")
    ELSE Chars("<!DOCTYPE ") \o dt.name \o Chars(" \"") \o dt.public_id
             \o Chars("\" \"") \o dt.system_id \o Chars("\">")

doctype_to_test_format(dt) ==
    IF dt.public_id = <<>> /\ dt.system_id = <<>>
    THEN Chars("<!DOCTYPE ") \o dt.name \o Chars(">")
    ELSE Chars("<!DOCTYPE ") \o dt.name \o Chars(" \"") \o dt.public_id
             \o Chars("\" \"") \o dt.system_id \o Chars("\">")

\* " ".repeat(n)
repeat_space(n) == [i \in 1..n |-> " "]

\* Mutant of attr_lines: the attributes are written at the element's indent.
attr_lines_flat(attrs, indent) ==
    LET sorted == sort_attrs_for_test_output(attrs)
    IN  [i \in 1..Len(sorted) |->
            Chars("| ") \o repeat_space(indent) \o sorted[i].display
                \o Chars("=\"") \o sorted[i].value \o Chars("\"")]

\* The attribute lines of an element at indent, in sorted order.
attr_lines(attrs, indent) ==
    LET sorted == sort_attrs_for_test_output(attrs)
    IN  [i \in 1..Len(sorted) |->
            Chars("| ") \o repeat_space(indent + 2) \o sorted[i].display
                \o Chars("=\"") \o sorted[i].value \o Chars("\"")]

\* node_to_test_lines gives the lines it pushes to `out`; children_to_test_lines
\* is its `for &child in ...` loop from child i on.
RECURSIVE node_to_test_lines(_, _, _)
RECURSIVE children_to_test_lines(_, _, _, _)
children_to_test_lines(a, children, i, indent) ==
    IF i > Len(children)
    THEN <<>>
    ELSE node_to_test_lines(a, children[i], indent)
             \o children_to_test_lines(a, children, i + 1, indent)

\* Mutant of template_lines: the contents' children are written at indent + 2.
template_lines_shallow(a, contents, indent) ==
    <<Chars("| ") \o repeat_space(indent + 2) \o Chars("content")>>
        \o children_to_test_lines(a, a[contents].children, 1, indent + 2)

\* The branch of an HTML template element with contents.
template_lines(a, contents, indent) ==
    <<Chars("| ") \o repeat_space(indent + 2) \o Chars("content")>>
        \o children_to_test_lines(a, a[contents].children, 1, indent + 4)

\* Mutant of element_children_lines: the children are written at the element's indent.
element_children_flat(a, node_id, indent) ==
    children_to_test_lines(a, a[node_id].children, 1, indent)

\* The last loop of the Element branch.
element_children_lines(a, node_id, indent) ==
    children_to_test_lines(a, a[node_id].children, 1, indent + 2)

node_to_test_lines(a, node_id, indent) ==
    LET node == a[node_id]
        kind == node.data.kind
    IN  CASE kind \in {"Document", "DocumentFragment"} ->
               children_to_test_lines(a, node.children, 1, indent)
          [] kind = "Doctype" ->
               <<Chars("| ") \o repeat_space(indent)
                    \o doctype_to_test_format(node.data.doctype)>>
          [] kind = "Comment" ->
               <<Chars("| ") \o repeat_space(indent) \o Chars("<!-- ")
                    \o node.data.text \o Chars(" -->")>>
          [] kind = "Text" ->
               <<Chars("| ") \o repeat_space(indent) \o Chars("\"")
                    \o node.data.text \o Chars("\"")>>
          [] kind = "Element" ->
               <<Chars("| ") \o repeat_space(indent) \o Chars("<")
                    \o qualified_name(node.data.name) \o Chars(">")>>
                 \o attr_lines(node.data.attrs, indent)
                 \o (IF is_template_html_ns(node) /\ node.data.template_contents # None
                     THEN template_lines(a, node.data.template_contents, indent)
                     ELSE element_children_lines(a, node_id, indent))

\* [String]::join
RECURSIVE join(_, _)
join(lines, sep) ==
    IF lines = <<>>
    THEN <<>>
    ELSE IF Len(lines) = 1
    THEN lines[1]
    ELSE lines[1] \o sep \o join(Tail(lines), sep)

to_test_format(a, root_id) == join(node_to_test_lines(a, root_id, 0), Chars("\n"))

(***************************************************************************)
(* Documents as the tests build them, and to_test_format applied to them.  *)
(* A node is appended once, while it has no parent, to a document,         *)
(* fragment or element that is not below it: the arena stays a tree, which *)
(* node_to_test_lines needs to return.  A node is created when the nodes   *)
(* created before it have been appended.                                   *)
(***************************************************************************)
MaxSerNodes == 5
MaxSerAttrs == 1

SerQualNames ==
    { [ns |-> "Html", local |-> Chars("template")],
      [ns |-> "Svg", local |-> Chars("template")],
      [ns |-> "Html", local |-> Chars("p")] }

NotCalled == [called |-> FALSE, text |-> <<>>]

\* The nodes node_to_test_lines can visit from the nodes of set s: children, and
\* template contents; k bounds the depth.
RECURSIVE Visited(_, _, _)
Visited(a, s, k) ==
    IF k = 0
    THEN s
    ELSE Visited(a,
                 s \cup UNION {{a[n].children[i] : i \in 1..Len(a[n].children)} : n \in s}
                   \cup {a[n].data.template_contents :
                            n \in {m \in s : /\ a[m].data.kind = "Element"
                                             /\ a[m].data.template_contents # None}},
                 k - 1)

\* An element or text node that has not been appended.
Pending(n) ==
    /\ n # root
    /\ arena[n].parent = None
    /\ arena[n].data.kind \in {"Element", "Text"}

SerCreateElement ==
    /\ Len(arena) < MaxSerNodes
    /\ \A n \in NodeIds : ~Pending(n)
    /\ \E name \in SerQualNames : arena' = create_element(arena, name)
    /\ out' = NotCalled
    /\ UNCHANGED <<root, runVars, suiteVars, readVars>>

SerCreateText ==
    /\ Len(arena) < MaxSerNodes
    /\ \A n \in NodeIds : ~Pending(n)
    /\ arena' = create_text(arena, Chars("hi"))
    /\ out' = NotCalled
    /\ UNCHANGED <<root, runVars, suiteVars, readVars>>

SerAppendChild ==
    /\ \E parent \in NodeIds, child \in NodeIds :
          /\ Pending(child)
          /\ arena[parent].data.kind \in {"Document", "DocumentFragment", "Element"}
          /\ parent \notin Visited(arena, {child}, Len(arena))
          /\ arena' = append_child(arena, parent, child)
    /\ out' = NotCalled
    /\ UNCHANGED <<root, runVars, suiteVars, readVars>>

SerSetAttr ==
    /\ \E element \in NodeIds :
          /\ IsElement(arena, element)
          /\ Len(arena[element].data.attrs) < MaxSerAttrs
          /\ arena' = set_attr(arena, element,
                               [name |-> [ns |-> "Html", local |-> Chars("a")],
                                value |-> Chars("1")])
    /\ out' = NotCalled
    /\ UNCHANGED <<root, runVars, suiteVars, readVars>>

SerEnsureTemplateContents ==
    /\ Len(arena) < MaxSerNodes
    /\ \E template \in NodeIds :
          /\ IsElement(arena, template)
          /\ arena[template].data.template_contents = None
          /\ arena' = ensure_template_contents(arena, template).arena
    /\ out' = NotCalled
    /\ UNCHANGED <<root, runVars, suiteVars, readVars>>

Serialize ==
    /\ ~out.called
    /\ out' = [called |-> TRUE, text |-> to_test_format(arena, root)]
    /\ UNCHANGED <<domVars, runVars, suiteVars, readVars>>

InitSer ==
    /\ arena = new_empty("Document")
    /\ root = 1
    /\ RunIdle

NextSer ==
    \/ SerCreateElement
    \/ SerCreateText
    \/ SerAppendChild
    \/ SerSetAttr
    \/ SerEnsureTemplateContents
    \/ Serialize

SpecSer == InitSer /\ [][NextSer]_vars

(***************************************************************************)
(* One element under a document, its attributes set one after the other,   *)
(* and to_test_format applied.                                             *)
(***************************************************************************)
MaxSortAttrs == 3

\* Other(foo) has no prefix: its `a` is displayed as the HTML `a` is.
SortAttrNames ==
    { [ns |-> "Html", local |-> Chars("b")],
      [ns |-> "Html", local |-> Chars("a")],
      [ns |-> "Html", local |-> Chars("B")],
      [ns |-> "Other(xlink)", local |-> Chars("a")],
      [ns |-> "Other(foo)", local |-> Chars("a")],
      [ns |-> "Html", local |-> <<"U+FF5E">>],
      [ns |-> "Html", local |-> <<"U+1F600">>] }

SortAttrValues == {Chars("1"), Chars("2")}

SortSetAttr ==
    /\ \E name \in SortAttrNames, value \in SortAttrValues :
          /\ attr_position(arena[2].data.attrs, name) = None
                => Len(arena[2].data.attrs) < MaxSortAttrs
          /\ arena' = set_attr(arena, 2, [name |-> name, value |-> value])
    /\ out' = NotCalled
    /\ UNCHANGED <<root, runVars, suiteVars, readVars>>

InitSort ==
    /\ arena = append_child(create_element(new_empty("Document"),
                                           [ns |-> "Html", local |-> Chars("div")]),
                            1, 2)
    /\ root = 1
    /\ RunIdle

NextSort ==
    \/ SortSetAttr
    \/ Serialize

SpecSort == InitSort /\ [][NextSort]_vars

(***************************************************************************)
(* A document with a doctype, and to_test_format applied.                  *)
(***************************************************************************)
DoctypeNames == {Chars("html"), Chars(""), Chars("svg")}

PublicIds == {Chars(""), Chars("pub"), Chars("-//W3C//DTD HTML 4.01//EN")}

SystemIds == {Chars(""), Chars("sys"), Chars("about:legacy-compat")}

DocCreateDoctype ==
    /\ Len(arena) = 1
    /\ \E name \in DoctypeNames, public_id \in PublicIds, system_id \in SystemIds :
          arena' = create_doctype(arena, [name |-> name, public_id |-> public_id,
                                          system_id |-> system_id])
    /\ out' = NotCalled
    /\ UNCHANGED <<root, runVars, suiteVars, readVars>>

DocAppendChild ==
    /\ Len(arena) = 2
    /\ arena[2].parent = None
    /\ arena' = append_child(arena, root, 2)
    /\ out' = NotCalled
    /\ UNCHANGED <<root, runVars, suiteVars, readVars>>

NextDoctype ==
    \/ DocCreateDoctype
    \/ DocAppendChild
    \/ Serialize

SpecDoctype == InitSer /\ [][NextDoctype]_vars

(***************************************************************************)
(* Helpers of the properties.                                              *)
(***************************************************************************)
Range(s) == {s[i] : i \in 1..Len(s)}

Count(s, x) == Cardinality({i \in 1..Len(s) : s[i] = x})

NoDuplicates(s) == \A i, j \in 1..Len(s) : s[i] = s[j] => i = j

RECURSIVE SumOver(_, _)
SumOver(f, s) == IF s = <<>> THEN 0 ELSE f[Head(s)] + SumOver(f, Tail(s))

\* The workers' failure lists, concatenated in the order the chunks were spawned.
RECURSIVE FailuresInDispatchOrder(_)
FailuresInDispatchOrder(k) ==
    IF k = 0 THEN <<>> ELSE FailuresInDispatchOrder(k - 1) \o worker[k].summary.failures

\* The spawned chunks, concatenated in spawn order.
RECURSIVE ChunksInOrder(_)
ChunksInOrder(k) == IF k = 0 THEN <<>> ELSE ChunksInOrder(k - 1) \o worker[k].paths

\* The closure's loop run to its end by one thread.
RECURSIVE run_chunk(_, _, _)
run_chunk(w, max_failures, fail_fast) ==
    IF w.pc # "run"
    THEN w
    ELSE run_chunk(worker_iteration(w, max_failures, fail_fast), max_failures, fail_fast)

\* The Summary one worker sends when the whole file list is its chunk (--threads 1).
OneWorkerSummary ==
    run_chunk([paths |-> Paths, next |-> 1, summary |-> SummaryDefault, runs |-> <<>>,
               pc |-> "run"],
              config.max_failures, config.fail_fast).summary

\* The executions a file requires, and those among them that mismatch.
RECURSIVE Required(_, _)
Required(path, i) ==
    IF i = 0 THEN 0
    ELSE Len(script_modes(files[path].cases[i].script_directive)) + Required(path, i - 1)

RECURSIVE Mismatching(_, _)
Mismatching(path, i) ==
    IF i = 0 THEN 0
    ELSE Cardinality({m \in Range(script_modes(files[path].cases[i].script_directive)) :
                          files[path].cases[i].expected_norm
                              # actual_norm(files[path].cases[i], m[1])})
         + Mismatching(path, i - 1)

RequiredOf == [p \in 1..Len(files) |->
                 IF files[p].readable THEN Required(p, Len(files[p].cases)) ELSE 1]

MismatchingOf == [p \in 1..Len(files) |->
                    IF files[p].readable THEN Mismatching(p, Len(files[p].cases)) ELSE 1]

Consistent(s) == s.total = s.passed + s.failed

(***************************************************************************)
(* Properties of the document tree (SpecDom).                              *)
(***************************************************************************)

\* C1: every identity c in some node p's children list exists in the arena and
\* has parent = p, and c occurs in one children list only, and once.
C1_ChildrenPointBack ==
    \A p \in NodeIds : \A i \in 1..Len(arena[p].children) :
        LET c == arena[p].children[i]
        IN  /\ c \in NodeIds
            /\ arena[c].parent = p
            /\ \A q \in NodeIds : \A j \in 1..Len(arena[q].children) :
                   arena[q].children[j] = c => (q = p /\ j = i)

\* C2: the root has parent = None and occurs in no children list.
C2_RootIsNoChild ==
    /\ arena[root].parent = None
    /\ \A p \in NodeIds : \A i \in 1..Len(arena[p].children) : arena[p].children[i] # root

(***************************************************************************)
(* Properties of the execution engine (SpecRun, SpecChunk).                *)
(***************************************************************************)

\* C3: when the receive loop has ended, the merged failure list is the workers'
\* failure lists concatenated in chunk dispatch order, truncated to the cap.
C3_MergedInDispatchOrder ==
    pc = "report" =>
        all.failures = truncate(FailuresInDispatchOrder(Len(worker)), config.max_failures)

\* C4: the merged failure list, after every merge step and as reported, is never
\* longer than max_failures.
C4_FailuresWithinCap ==
    /\ Len(all.failures) <= config.max_failures
    /\ Len(reported.failures) <= config.max_failures

\* C4 witness: the workers recorded more failures than the cap, and the report
\* shows exactly max_failures of them.
C4_Witness ==
    /\ pc = "done"
    /\ Len(worker) >= 2
    /\ Len(FailuresInDispatchOrder(Len(worker))) > config.max_failures
    /\ Len(reported.failures) = config.max_failures

\* C5: total = passed + failed in every Summary run_tree_file returns (for every
\* remaining cap the worker can pass), in every worker's Summary, in every
\* Summary in the channel and in the merged Summary.
C5_TotalIsPassedPlusFailed ==
    /\ \A p \in 1..Len(files) : \A m \in 0..config.max_failures :
           Consistent(run_tree_file(p, m, config.fail_fast))
    /\ \A w \in 1..Len(worker) : Consistent(worker[w].summary)
    /\ \A i \in 1..Len(rx) : Consistent(rx[i].summary)
    /\ Consistent(all)

\* C5 witness: a finished run over two workers with an unreadable file, passes and
\* failures.
C5_Witness ==
    /\ pc = "done"
    /\ Len(worker) >= 2
    /\ \E p \in 1..Len(files) : ~files[p].readable
    /\ all.passed > 0
    /\ all.failed > 1
    /\ all.total = all.passed + all.failed

\* C6: the merged total, passed and failed are those of the run with one worker.
C6_CountsIndependentOfThreads ==
    (pc = "report" /\ files # <<>>) =>
        /\ all.total = OneWorkerSummary.total
        /\ all.passed = OneWorkerSummary.passed
        /\ all.failed = OneWorkerSummary.failed

\* C7: a case with script_directive = Both that a worker has started has been
\* executed exactly twice, once with scripting on and once with scripting off.
C7_BothRunsTwice ==
    \A w \in 1..Len(worker) : \A p \in 1..Len(files) : \A i \in 1..Len(files[p].cases) :
        (/\ files[p].cases[i].script_directive = "Both"
         /\ \E r \in Range(worker[w].runs) : r[1] = p /\ r[2] = i - 1)
        => /\ Count(worker[w].runs, <<p, i - 1, "on">>) = 1
           /\ Count(worker[w].runs, <<p, i - 1, "off">>) = 1

\* C8: with fail-fast disabled the merged total is the number of required
\* executions over all files and the merged failed the number of mismatching
\* ones, whatever the cap.
C8_CapOnlyStopsRecording ==
    (pc = "report" /\ ~config.fail_fast) =>
        /\ all.total = SumOver(RequiredOf, Paths)
        /\ all.failed = SumOver(MismatchingOf, Paths)

\* C9: a worker's Summary is in the channel or merged exactly when the worker has
\* left its loop and sent, and then once; a message is its worker's Summary; the
\* merged counts are the sums over the merged workers' Summaries; when the
\* receive loop has ended every spawned worker's Summary is merged.
C9_OneSummaryPerWorker ==
    LET sent == received \o [i \in 1..Len(rx) |-> rx[i].from]
    IN  /\ NoDuplicates(sent)
        /\ Range(sent) = {w \in 1..Len(worker) : worker[w].pc \in {"exit", "done"}}
        /\ \A i \in 1..Len(rx) : rx[i].summary = worker[rx[i].from].summary
        /\ all.total = SumOver([w \in 1..Len(worker) |-> worker[w].summary.total], received)
        /\ all.passed = SumOver([w \in 1..Len(worker) |-> worker[w].summary.passed], received)
        /\ all.failed = SumOver([w \in 1..Len(worker) |-> worker[w].summary.failed], received)
        /\ pc \in {"report", "done"} => Range(received) = 1..Len(worker)

\* C9 witness: two workers, the second one's Summary merged first, counts merged
\* from both.
C9_Witness ==
    /\ pc = "done"
    /\ received = <<2, 1>>
    /\ worker[1].summary.total > 0
    /\ worker[2].summary.total > 0
    /\ Len(all.failures) = config.max_failures

\* C10: for n >= 1 files and t >= 1 threads the spawned chunks are non-empty,
\* contiguous and in discovery order, each of at most ceil(n / min(t, n)) files,
\* at most min(t, n) workers are spawned, and once spawning is over every file
\* is in exactly one chunk.
C10_Chunks ==
    LET n == Len(files)
        t == Min(config.threads, n)
        ceil == CHOOSE q \in 0..n : q * t >= n /\ (q - 1) * t < n
        spawned == ChunksInOrder(Len(worker))
    IN  n >= 1 =>
            /\ Len(worker) <= t
            /\ \A w \in 1..Len(worker) :
                   /\ worker[w].paths # <<>>
                   /\ Len(worker[w].paths) <= ceil
            /\ spawned = SubSeq(Paths, 1, Len(spawned))
            /\ pc \notin {"main", "spawn"} => spawned = Paths

\* C10 witness: five files and four threads give chunks of two, two and one file,
\* one worker fewer than threads.
C10_Witness ==
    /\ pc = "recv"
    /\ Len(files) = 5
    /\ config.threads = 4
    /\ Len(worker) = 3
    /\ Len(worker[3].paths) = 1

(***************************************************************************)
(* Fixture files that cannot be read or decoded.                           *)
(***************************************************************************)
\* The worker's next file is unreadable or has no decodable section structure.
UnreadableNext(w) ==
    /\ worker[w].pc = "run"
    /\ ~files[worker[w].paths[worker[w].next]].readable

\* The suite's next file is unreadable, no JSON, no object, or has no tests array.
UndecodableNext ==
    /\ sj.pc = "loop"
    /\ sj.f < Len(testsuite.files)
    /\ testsuite.files[sj.f + 1].kind # "tests"

\* One attempted and one failed case more, passed unchanged.
OneFailedMore(old, new) ==
    /\ new.total = old.total + 1
    /\ new.failed = old.failed + 1
    /\ new.passed = old.passed

\* The step of worker w over an unreadable .dat file: the counts, the record, and
\* the next file when fail-fast is off and the cap is not reached.
TreeFileStep(w) ==
    LET old == worker[w]
        new == worker'[w]
        path == old.paths[old.next]
    IN  /\ OneFailedMore(old.summary, new.summary)
        /\ new.summary.failures = Append(old.summary.failures, Failure(path, 0, "n/a"))
        /\ (/\ ~config.fail_fast
            /\ Len(new.summary.failures) < config.max_failures
            /\ old.next < Len(old.paths))
               => new.pc = "run" /\ new.next = old.next + 1

\* The step of a JSON suite over an undecodable .test file; recorded says
\* whether the failure record is appended.
SuiteFileStep(recorded) ==
    /\ OneFailedMore(sj.summary, sj'.summary)
    /\ sj'.summary.failures =
           IF recorded
           THEN Append(sj.summary.failures,
                       Failure(<<testsuite.label, sj.f + 1>>, 0, "n/a"))
           ELSE sj.summary.failures
    /\ sj'.pc = "loop"
    /\ sj'.f = sj.f + 1

\* C11 as stated: a file that cannot be read or decoded adds one to total and
\* to failed, leaves passed, and adds one failure record for the file, in
\* run_tree_file and in the JSON suites alike; the worker goes on to its next
\* file when fail-fast is off and the cap is not reached.
C11_AlwaysRecorded ==
    [][/\ \A w \in 1..Len(worker) :
             UnreadableNext(w) /\ WorkerRunFile(w) => TreeFileStep(w)
       /\ UndecodableNext /\ SuiteFile => SuiteFileStep(TRUE)]_vars

\* C11 amended: as above, but a JSON suite adds the failure record only while
\* its failure list holds fewer than max_failures records (the counts are added
\* all the same, and the suite goes on to its next file in every case).
C11_RecordedBelowCap ==
    [][/\ \A w \in 1..Len(worker) :
             UnreadableNext(w) /\ WorkerRunFile(w) => TreeFileStep(w)
       /\ UndecodableNext /\ SuiteFile =>
             SuiteFileStep(Len(sj.summary.failures) < config.max_failures)]_vars

\* C11 witness: the worker went from an unreadable first file on to its second,
\* and the suite counted and recorded two undecodable files.
C11_Witness ==
    /\ Len(worker) = 1
    /\ Len(files) = 2
    /\ ~files[1].readable
    /\ worker[1].summary.total = 2
    /\ sj.f = 2
    /\ testsuite.files[1].kind = "read error"
    /\ testsuite.files[2].kind = "JSON parse error"
    /\ sj.summary.failed = 2
    /\ Len(sj.summary.failures) = 2

(***************************************************************************)
(* Template contents.                                                      *)
(***************************************************************************)
template_contents(a, e) == a[e].data.template_contents

\* C12: the step that first records template contents on an element e appends
\* exactly one node, a DocumentFragment with no parent and no children, records
\* its identity on e and changes nothing else; from then on, whatever tree
\* operation is applied, the identity recorded on e stays the same, and a call
\* of ensure_template_contents on e returns it and leaves the arena unchanged.
C12_TemplateContentsOnce ==
    [][\A e \in NodeIds :
          IsElement(arena, e) =>
             /\ (template_contents(arena, e) = None /\ template_contents(arena', e) # None)
                   => /\ Len(arena') = Len(arena) + 1
                      /\ template_contents(arena', e) = Len(arena')
                      /\ arena'[Len(arena')] = Node([kind |-> "DocumentFragment"])
                      /\ arena'[e] = [arena[e] EXCEPT !.data.template_contents = Len(arena')]
                      /\ \A n \in NodeIds \ {e} : arena'[n] = arena[n]
             /\ template_contents(arena, e) # None
                   => /\ template_contents(arena', e) = template_contents(arena, e)
                      /\ ensure_template_contents(arena', e) =
                            [arena |-> arena', id |-> template_contents(arena, e)]]_vars

\* C12 witness: an element under the root whose template contents were made,
\* the fragment being the arena's last node, parentless and childless.
C12_Witness ==
    /\ Len(arena) = 3
    /\ IsElement(arena, 2)
    /\ arena[root].children = <<2>>
    /\ arena[2].parent = root
    /\ template_contents(arena, 2) = 3
    /\ arena[3] = Node([kind |-> "DocumentFragment"])

\* C13: after any sequence of tree operations no two distinct elements record
\* the same template_contents identity, and every recorded identity is that of
\* an existing DocumentFragment node other than the tree root.
C13_TemplateContentsDistinct ==
    \A e \in NodeIds :
       (IsElement(arena, e) /\ template_contents(arena, e) # None) =>
          /\ template_contents(arena, e) \in NodeIds
          /\ arena[template_contents(arena, e)].data.kind = "DocumentFragment"
          /\ template_contents(arena, e) # root
          /\ \A e2 \in NodeIds \ {e} :
                IsElement(arena, e2) =>
                   template_contents(arena, e2) # template_contents(arena, e)

\* C13 witness: two elements with template contents each, one of them moved
\* into the contents of the other.
C13_Witness ==
    /\ Len(arena) = 5
    /\ IsElement(arena, 2) /\ IsElement(arena, 3)
    /\ template_contents(arena, 2) = 4
    /\ template_contents(arena, 3) = 5
    /\ arena[root].children = <<2>>
    /\ arena[4].children = <<3>>
    /\ arena[3].parent = 4

(***************************************************************************)
(* detach, insert_before, set_attr.                                        *)
(***************************************************************************)
\* s without its entries equal to x, the others in their order.
Without(s, x) == SelectSeq(s, LAMBDA y : y # x)

\* What the claim says of detach(node) applied to arena a.
DetachFrame(a, node) ==
    LET p == a[node].parent
        a2 == detach(a, node)
    IN  IF p = None
        THEN a2 = a
        ELSE /\ Len(a2) = Len(a)
             /\ \A i \in 1..Len(a2[p].children) : a2[p].children[i] # node
             /\ a2[p].children = Without(a[p].children, node)
             /\ a2[node].parent = None
             /\ a2[node].children = IF node = p THEN Without(a[p].children, node)
                                    ELSE a[node].children
             /\ a2[node].data = a[node].data
             /\ p # node => a2[p].parent = a[p].parent /\ a2[p].data = a[p].data
             /\ \A m \in 1..Len(a) : m \notin {node, p} => a2[m] = a[m]

InsertBeforeEffect(a, parent, c, reference) ==
    LET ch == a[parent].children
        a2 == insert_before(a, parent, c, reference)
        ch2 == a2[parent].children
        among == reference # None /\ \E i \in 1..Len(ch) : ch[i] = reference
    IN  IF among
        THEN LET i == CHOOSE k \in 1..Len(ch) :
                         ch[k] = reference /\ \A j \in 1..(k - 1) : ch[j] # reference
             IN  /\ Len(ch2) = Len(ch) + 1
                 /\ ch2[i] = c
                 /\ ch2[i + 1] = reference
                 /\ \A j \in 1..(i - 1) : ch2[j] = ch[j]
                 /\ \A j \in i..Len(ch) : ch2[j + 1] = ch[j]
                 /\ a2[c].parent = parent
        ELSE a2 = append_child(a, parent, c)

\* C15: insert_before(parent, c, Some(r)) with r among parent's children puts c
\* at r's former index, immediately before r, sets c.parent = parent and keeps
\* the order of the other children; with None, or with a reference that is not
\* among parent's children, the result is exactly that of append_child(parent, c).
C15_InsertBefore ==
    \A parent \in NodeIds, c \in NodeIds, reference \in NodeIds \cup {None} :
       InsertBeforeEffect(arena, parent, c, reference)

\* C15 witness: the fourth node was inserted between the root's two children.
C15_Witness ==
    /\ Len(arena) = 4
    /\ arena[root].children = <<2, 4, 3>>
    /\ \A n \in 2..4 : arena[n].parent = root /\ arena[n].children = <<>>

\* What the claim says of set_attr(element, attr) applied to arena a.
SetAttrFrame(a, element, attr) ==
    LET a2 == set_attr(a, element, attr)
    IN  /\ Len(a2) = Len(a)
        /\ \A m \in 1..Len(a) : m # element => a2[m] = a[m]
        /\ IF ~IsElement(a, element)
           THEN a2[element] = a[element]
           ELSE LET attrs == a[element].data.attrs
                    attrs2 == a2[element].data.attrs
                    same == {i \in 1..Len(attrs) : attrs[i].name = attr.name}
                IN  /\ a2[element].parent = a[element].parent
                    /\ a2[element].children = a[element].children
                    /\ a2[element].data.kind = "Element"
                    /\ a2[element].data.name = a[element].data.name
                    /\ a2[element].data.template_contents =
                          a[element].data.template_contents
                    /\ IF same # {}
                       THEN /\ Len(attrs2) = Len(attrs)
                            /\ \A i \in 1..Len(attrs) :
                                  /\ attrs2[i].name = attrs[i].name
                                  /\ i \notin same => attrs2[i].value = attrs[i].value
                            /\ \E i \in same :
                                  /\ attrs2[i].value = attr.value
                                  /\ \A j \in same \ {i} : attrs2[j].value = attrs[j].value
                       ELSE attrs2 = Append(attrs, attr)

\* C16: set_attr on an element that has an attribute of an equal qualified name
\* replaces only that attribute's value, the list keeping its length and order;
\* otherwise it appends the attribute at the end; on a node that is not an
\* element it changes nothing; in no case is another node changed.
C16_SetAttrFrame ==
    \A element \in NodeIds, name \in AttrNames, value \in AttrValues :
       SetAttrFrame(arena, element, [name |-> name, value |-> value])

\* C16 witness: an element whose attributes a (HTML), b and a (xlink) were set in
\* this order and the first then replaced, beside a text node.
C16_Witness ==
    /\ Len(arena) = 3
    /\ arena[2].data.kind = "Text"
    /\ IsElement(arena, 3)
    /\ arena[3].data.attrs =
          << [name |-> [ns |-> "Html", local |-> "a"], value |-> "2"],
             [name |-> [ns |-> "Html", local |-> "b"], value |-> "1"],
             [name |-> [ns |-> "Other(xlink)", local |-> "a"], value |-> "1"] >>

(***************************************************************************)
(* The canonical text.                                                     *)
(***************************************************************************)
\* The element line and the attribute lines of element e at indent.
ElementHead(a, e, indent) ==
    <<Chars("| ") \o repeat_space(indent) \o Chars("<")
         \o qualified_name(a[e].data.name) \o Chars(">")>>
       \o attr_lines(a[e].data.attrs, indent)

\* The lines of the nodes of list s at indent, one node after the other.
RECURSIVE LinesOf(_, _, _)
LinesOf(a, s, indent) ==
    IF s = <<>>
    THEN <<>>
    ELSE node_to_test_lines(a, Head(s), indent) \o LinesOf(a, Tail(s), indent)

ContentLine(indent) == Chars("| ") \o repeat_space(indent) \o Chars("content")

Indents == {0, 2}

\* No line of lines is the `content` line of indent.
NoContentLine(lines, indent) ==
    \A i \in 1..Len(lines) : lines[i] # ContentLine(indent)

\* C17: an HTML-namespace `template` element whose contents were materialized is
\* written as its element line and attribute lines, then one `content` line at
\* indent + 2, then the children of its contents fragment at indent + 4, and
\* none of its direct children; an element that is not an HTML template is
\* written with its direct children and no `content` line, also when contents
\* were materialized for it.
C17_TemplateContentLine ==
    out.called =>
       /\ out.text = join(LinesOf(arena, arena[root].children, 0), Chars("\n"))
       /\ \A e \in NodeIds, indent \in Indents :
             (IsElement(arena, e) /\ template_contents(arena, e) # None) =>
                LET lines == node_to_test_lines(arena, e, indent)
                IN  IF arena[e].data.name = [ns |-> "Html", local |-> Chars("template")]
                    THEN lines =
                            ElementHead(arena, e, indent)
                               \o <<ContentLine(indent + 2)>>
                               \o LinesOf(arena,
                                          arena[template_contents(arena, e)].children,
                                          indent + 4)
                    ELSE /\ lines = ElementHead(arena, e, indent)
                                       \o LinesOf(arena, arena[e].children, indent + 2)
                         /\ NoContentLine(lines, indent + 2)

\* C17 witness: the text of a template with an attribute, a direct child, and
\* contents holding a p.
C17_Witness ==
    /\ out.called
    /\ out.text = Chars("| <template>\n|   a=\"1\"\n|   content\n|     <p>")
    /\ \E e \in NodeIds : arena[root].children = <<e>> /\ arena[e].children # <<>>

\* C17 witness of the other case: an svg template with materialized contents is
\* written with its direct child.
C17_WitnessSvg ==
    /\ out.called
    /\ out.text = Chars("| <svg template>\n|   \"hi\"")
    /\ \E e \in NodeIds :
          /\ arena[root].children = <<e>>
          /\ template_contents(arena, e) # None
          /\ arena[template_contents(arena, e)].children # <<>>

\* C18: an HTML template element without materialized contents is written with
\* no `content` line and with its direct children at indent + 2, as any other
\* element is.
C18_TemplateWithoutContents ==
    out.called =>
       \A e \in NodeIds, indent \in Indents :
          (IsElement(arena, e) /\ template_contents(arena, e) = None) =>
             LET lines == node_to_test_lines(arena, e, indent)
             IN  /\ lines = ElementHead(arena, e, indent)
                               \o LinesOf(arena, arena[e].children, indent + 2)
                 /\ NoContentLine(lines, indent + 2)

\* C18 witness: the text of a template without contents that has a p and a text
\* as children.
C18_Witness ==
    /\ out.called
    /\ out.text = Chars("| <template>\n|   <p>\n|   \"hi\"")
    /\ \A e \in NodeIds : IsElement(arena, e) => template_contents(arena, e) = None

\* The UTF-16 code units of a string: a char up to U+FFFF is one unit, a char
\* above is a high and a low surrogate.
RECURSIVE CodeUnits(_)
CodeUnits(s) ==
    IF s = <<>>
    THEN <<>>
    ELSE LET cp == CodePoint(Head(s))
         IN  (IF cp <= 65535
              THEN <<cp>>
              ELSE <<55296 + ((cp - 65536) \div 1024), 56320 + ((cp - 65536) % 1024)>>)
                \o CodeUnits(Tail(s))

\* The name an attribute is displayed with: namespace prefix, then local name.
Displayed(attr) == Chars(namespace_prefix(attr.name.ns)) \o attr.name.local

\* u comes before v in the lexicographic order of the units.
UnitsBefore(u, v) ==
    \/ Len(u) < Len(v) /\ SubSeq(v, 1, Len(u)) = u
    \/ \E k \in 1..Min(Len(u), Len(v)) :
          /\ SubSeq(u, 1, k - 1) = SubSeq(v, 1, k - 1)
          /\ u[k] < v[k]

\* C19: the attribute lines of an element come in non-decreasing order of the
\* UTF-16 code units of the displayed name (namespace prefix and local name),
\* whatever the order the attributes were set in; attributes with equal
\* displayed names keep their insertion order.  Set as b, a, B they are
\* written as B, a, b.
C19_AttributesSorted ==
    out.called =>
       LET attrs == arena[2].data.attrs
           n == Len(attrs)
       IN  \E order \in [1..n -> 1..n] :
              /\ \A i \in 1..n : \E j \in 1..n : order[j] = i
              /\ \A i \in 1..n, j \in 1..n :
                    i < j =>
                       LET u == CodeUnits(Displayed(attrs[order[i]]))
                           v == CodeUnits(Displayed(attrs[order[j]]))
                       IN  /\ ~UnitsBefore(v, u)
                           /\ u = v => order[i] < order[j]
              /\ out.text =
                    join(<<Chars("| <div>")>>
                            \o [i \in 1..n |->
                                   Chars("|   ") \o Displayed(attrs[order[i]])
                                      \o Chars("=\"") \o attrs[order[i]].value
                                      \o Chars("\"")],
                         Chars("\n"))

\* C19 witness: b, a and B set in this order are written as B, a, b.
C19_Witness ==
    /\ out.called
    /\ arena[2].data.attrs =
          << [name |-> [ns |-> "Html", local |-> Chars("b")], value |-> Chars("1")],
             [name |-> [ns |-> "Html", local |-> Chars("a")], value |-> Chars("1")],
             [name |-> [ns |-> "Html", local |-> Chars("B")], value |-> Chars("1")] >>
    /\ out.text = Chars("| <div>\n|   B=\"1\"\n|   a=\"1\"\n|   b=\"1\"")

\* C19 witness of a tie: the two attributes displayed as `a` stay in insertion
\* order, before U+FF5E.
C19_WitnessTie ==
    /\ out.called
    /\ arena[2].data.attrs =
          << [name |-> [ns |-> "Html", local |-> <<"U+FF5E">>], value |-> Chars("1")],
             [name |-> [ns |-> "Other(foo)", local |-> Chars("a")], value |-> Chars("2")],
             [name |-> [ns |-> "Html", local |-> Chars("a")], value |-> Chars("1")] >>
    /\ out.text = join(<<Chars("| <div>"), Chars("|   a=\"2\""), Chars("|   a=\"1\""),
                         Chars("|   ") \o <<"U+FF5E">> \o Chars("=\"1\"")>>, Chars("\n"))

\* C19 witness of a surrogate pair: U+1F600 (units D83D DE00) is written before
\* U+FF5E, which was set first.
C19_WitnessSurrogates ==
    /\ out.called
    /\ arena[2].data.attrs =
          << [name |-> [ns |-> "Html", local |-> <<"U+FF5E">>], value |-> Chars("1")],
             [name |-> [ns |-> "Html", local |-> <<"U+1F600">>], value |-> Chars("1")] >>
    /\ out.text = join(<<Chars("| <div>"),
                         Chars("|   ") \o <<"U+1F600">> \o Chars("=\"1\""),
                         Chars("|   ") \o <<"U+FF5E">> \o Chars("=\"1\"")>>, Chars("\n"))

C20_WitnessShort ==
    /\ out.called
    /\ arena[root].children = <<2>>
    /\ out.text = Chars("| <!DOCTYPE html>")

(***************************************************************************)
(* Documents whose text, comment and attribute content may hold a newline, *)
(* and to_test_format applied to them.                                     *)
(***************************************************************************)
MaxLineNodes == 4

LineQualNames ==
    { [ns |-> "Html", local |-> Chars("p")],
      [ns |-> "Html", local |-> Chars("template")] }

LineTexts == {Chars("hi"), Chars("a\nb")}

LineAttrValues == {Chars("1"), Chars("x\ny")}

\* A created node that has not been appended.
LinePending(n) ==
    /\ n # root
    /\ arena[n].parent = None
    /\ arena[n].data.kind \in {"Element", "Text", "Comment"}

LineCreateElement ==
    /\ Len(arena) < MaxLineNodes
    /\ \A n \in NodeIds : ~LinePending(n)
    /\ \E name \in LineQualNames : arena' = create_element(arena, name)
    /\ out' = NotCalled
    /\ UNCHANGED <<root, runVars, suiteVars, readVars>>

LineCreateText ==
    /\ Len(arena) < MaxLineNodes
    /\ \A n \in NodeIds : ~LinePending(n)
    /\ \E data \in LineTexts : arena' = create_text(arena, data)
    /\ out' = NotCalled
    /\ UNCHANGED <<root, runVars, suiteVars, readVars>>

LineCreateComment ==
    /\ Len(arena) < MaxLineNodes
    /\ \A n \in NodeIds : ~LinePending(n)
    /\ \E data \in LineTexts : arena' = create_comment(arena, data)
    /\ out' = NotCalled
    /\ UNCHANGED <<root, runVars, suiteVars, readVars>>

LineAppendChild ==
    /\ \E parent \in NodeIds, child \in NodeIds :
          /\ LinePending(child)
          /\ arena[parent].data.kind \in {"Document", "DocumentFragment", "Element"}
          /\ parent \notin Visited(arena, {child}, Len(arena))
          /\ arena' = append_child(arena, parent, child)
    /\ out' = NotCalled
    /\ UNCHANGED <<root, runVars, suiteVars, readVars>>

LineSetAttr ==
    /\ \E element \in NodeIds, value \in LineAttrValues :
          /\ IsElement(arena, element)
          /\ arena[element].data.attrs = <<>>
          /\ arena' = set_attr(arena, element,
                               [name |-> [ns |-> "Html", local |-> Chars("a")],
                                value |-> value])
    /\ out' = NotCalled
    /\ UNCHANGED <<root, runVars, suiteVars, readVars>>

NextLines ==
    \/ LineCreateElement
    \/ LineCreateText
    \/ LineCreateComment
    \/ LineAppendChild
    \/ LineSetAttr
    \/ SerEnsureTemplateContents
    \/ Serialize

SpecLines == InitSer /\ [][NextLines]_vars

(***************************************************************************)
(* str helpers of the line-based readers.                                  *)
(***************************************************************************)
\* str::split(ch): the pieces between the occurrences of ch; one piece when
\* there is none, also for the empty string.
RECURSIVE split(_, _)
split(s, ch) ==
    IF \E i \in 1..Len(s) : s[i] = ch
    THEN LET i == CHOOSE k \in 1..Len(s) : s[k] = ch /\ \A j \in 1..(k - 1) : s[j] # ch
         IN  <<SubSeq(s, 1, i - 1)>> \o split(SubSeq(s, i + 1, Len(s)), ch)
    ELSE <<s>>

\* str::starts_with
starts_with(s, prefix) ==
    /\ Len(prefix) <= Len(s)
    /\ SubSeq(s, 1, Len(prefix)) = prefix

\* The lines of a text: its pieces between newlines; the empty text has none.
OutputLines(text) == IF text = <<>> THEN <<>> ELSE split(text, "\n")

\* One entry per line that the content `written` at nesting level `level`
\* takes: its first line, then one line per newline in it.
EntryLevels(written, level) ==
    [i \in 1..Len(split(written, "\n")) |-> [level |-> level, first |-> i = 1]]

\* For each line of the text of node n written at nesting level `level`, the
\* nesting level of the node or attribute the line belongs to, and whether it is
\* the first line of that node or attribute.
RECURSIVE LineLevels(_, _, _)
RECURSIVE ChildLevels(_, _, _, _)
ChildLevels(a, children, i, level) ==
    IF i > Len(children)
    THEN <<>>
    ELSE LineLevels(a, children[i], level) \o ChildLevels(a, children, i + 1, level)

RECURSIVE AttrLevels(_, _, _)
AttrLevels(attrs, i, level) ==
    IF i > Len(attrs)
    THEN <<>>
    ELSE EntryLevels(attrs[i].value, level) \o AttrLevels(attrs, i + 1, level)

LineLevels(a, n, level) ==
    LET data == a[n].data
    IN  CASE data.kind \in {"Document", "DocumentFragment"} ->
               ChildLevels(a, a[n].children, 1, level)
          [] data.kind \in {"Text", "Comment"} -> EntryLevels(data.text, level)
          [] data.kind = "Element" ->
               <<[level |-> level, first |-> TRUE]>>
                 \o AttrLevels(sort_attrs_for_test_output(data.attrs), 1, level + 1)
                 \o (IF data.name = [ns |-> "Html", local |-> Chars("template")]
                        /\ data.template_contents # None
                     THEN <<[level |-> level + 1, first |-> TRUE]>>
                            \o ChildLevels(a, a[data.template_contents].children, 1,
                                           level + 2)
                     ELSE ChildLevels(a, a[n].children, 1, level + 1))

\* line starts with `| `, then exactly two spaces per level.
Prefixed(line, level) ==
    LET prefix == Chars("| ") \o repeat_space(2 * level)
    IN  /\ starts_with(line, prefix)
        /\ Len(line) > Len(prefix)
        /\ line[Len(prefix) + 1] # " "

\* C21 as stated: every line of to_test_format's output, split at newlines,
\* starts with `| ` followed by exactly two spaces per nesting level of the node
\* or attribute the line belongs to, also when content holds a newline.
C21_EveryLinePrefixed ==
    out.called =>
       LET lines == OutputLines(out.text)
           levels == LineLevels(arena, root, 0)
       IN  /\ Len(lines) = Len(levels)
           /\ \A i \in 1..Len(lines) : Prefixed(lines[i], levels[i].level)

\* C21 amended: the first line of every node, attribute and content marker
\* starts with `| ` followed by exactly two spaces per nesting level; content is
\* written raw, so a newline inside a text, a comment or an attribute value is
\* followed by a line of raw content that has no prefix.  A tree without a
\* newline in its content has every line prefixed.
C21_EntryLinesPrefixed ==
    out.called =>
       LET lines == OutputLines(out.text)
           levels == LineLevels(arena, root, 0)
       IN  /\ Len(lines) = Len(levels)
           /\ \A i \in 1..Len(lines) :
                 levels[i].first => Prefixed(lines[i], levels[i].level)

\* C21 witness: a text with a newline under an element whose attribute value
\* has a newline; the lines `y"` and `b"` have no prefix.
C21_Witness ==
    /\ out.called
    /\ out.text = Chars("| <p>\n|   a=\"x\ny\"\n|   \"a\nb\"")

\* C21 witness without a newline in the content: every line is prefixed.
C21_WitnessPlain ==
    /\ out.called
    /\ out.text = Chars("| <p>\n|   a=\"1\"\n|   <!-- hi -->")

(***************************************************************************)
(* src/serialize.rs: normalize_tree_text.                                  *)
(***************************************************************************)
\* char::is_whitespace, on the chars of the texts drawn.
is_whitespace(ch) == ch \in {" ", "\n", "\r", "\t"}

RECURSIVE trim_start(_)
trim_start(s) ==
    IF s # <<>> /\ is_whitespace(Head(s)) THEN trim_start(Tail(s)) ELSE s

RECURSIVE trim_end(_)
trim_end(s) ==
    IF s # <<>> /\ is_whitespace(s[Len(s)]) THEN trim_end(SubSeq(s, 1, Len(s) - 1)) ELSE s

trim(s) == trim_end(trim_start(s))

\* str::lines: the pieces that end at a "\n" and the rest behind the last one if
\* it is not empty; a piece that ended at "\n" loses one "\r" before it.
lines(s) ==
    LET pieces == split(s, "\n")
        n == IF pieces[Len(pieces)] = <<>> THEN Len(pieces) - 1 ELSE Len(pieces)
    IN  [i \in 1..n |->
            LET piece == pieces[i]
            IN  IF i < Len(pieces) /\ piece # <<>> /\ piece[Len(piece)] = "\r"
                THEN SubSeq(piece, 1, Len(piece) - 1)
                ELSE piece]

\* Mutant of normalize_tree_text: the lines are joined as they are.
normalize_tree_text_lines_kept(text) == join(lines(trim(text)), Chars("\n"))

normalize_tree_text(text) ==
    LET trimmed == trim(text)
        ls == lines(trimmed)
    IN  join([i \in 1..Len(ls) |-> trim_end(ls[i])], Chars("\n"))

(***************************************************************************)
(* normalize_tree_text applied to a text.                                  *)
(***************************************************************************)
MaxTextLen == 4

NormChars == {"a", " ", "\n", "\r"}

NormTexts == UNION {[1..n -> NormChars] : n \in 0..MaxTextLen}

NotRead == [called |-> FALSE, value |-> <<>>]

Normalize ==
    /\ ~ret.called
    /\ ret' = [called |-> TRUE, value |-> normalize_tree_text(content)]
    /\ UNCHANGED <<domVars, runVars, suiteVars, serVars, content>>

InitNorm ==
    /\ arena = new_empty("Document")
    /\ root = 1
    /\ EngineIdle
    /\ content \in NormTexts
    /\ ret = NotRead

NextNorm == Normalize

SpecNorm == InitNorm /\ [][NextNorm]_vars

\* A line without the whitespace at its end.
WithoutTrailingWhitespace(line) ==
    LET keep == {k \in 0..Len(line) :
                    \A j \in (k + 1)..Len(line) : line[j] \in {" ", "\n", "\r", "\t"}}
    IN  SubSeq(line, 1, CHOOSE k \in keep : \A m \in keep : k <= m)

\* The lines of a text (split at "\n") without their trailing whitespace and
\* without the blank lines at the start and at the end.
WithoutBlankEnds(text) ==
    LET raw == split(text, "\n")
        ls == [i \in 1..Len(raw) |-> WithoutTrailingWhitespace(raw[i])]
        full == {i \in 1..Len(ls) : ls[i] # <<>>}
    IN  IF full = {}
        THEN <<>>
        ELSE SubSeq(ls, CHOOSE i \in full : \A j \in full : i <= j,
                        CHOOSE i \in full : \A j \in full : j <= i)

\* C22: normalize_tree_text returns a text with no whitespace at its start or
\* end and with no line that ends in whitespace; normalizing the result gives
\* the result again; and a text that differs from the argument only in blank
\* lines at the start or end and in whitespace at the end of lines normalizes to
\* the same text.
C22_Normalized ==
    ret.called =>
       LET r == ret.value
           own == WithoutBlankEnds(content)
       IN  /\ r # <<>> => ~is_whitespace(r[1]) /\ ~is_whitespace(r[Len(r)])
           /\ \A i \in 1..Len(split(r, "\n")) :
                 LET line == split(r, "\n")[i]
                 IN  line # <<>> => ~is_whitespace(line[Len(line)])
           /\ normalize_tree_text(r) = r
           /\ \A other \in NormTexts :
                 WithoutBlankEnds(other) = own => normalize_tree_text(other) = r

\* C22 witness: whitespace at the end of a line is dropped.
C22_Witness ==
    /\ ret.called
    /\ content = Chars("a \na")
    /\ ret.value = Chars("a\na")

\* C22 witness: a blank line before and a CR LF after the text are dropped.
C22_WitnessBlank ==
    /\ ret.called
    /\ content = Chars("\na\r\n")
    /\ ret.value = Chars("a")

(***************************************************************************)
(* src/html5lib.rs: the reader of tree-construction .dat files.            *)
(*                                                                         *)
(* The file is the String read_to_string returns; `lines` of the source is *)
(* the sequence split gives and the index of the line that lines.next()    *)
(* would return.  Option<T> is the empty sequence (None) or <<x>>          *)
(* (Some(x)).  An emitted case carries, besides the five fields of         *)
(* TreeConstructionCase, the ghost field `line`: the number of the line    *)
(* its `#data` stands on.                                                  *)
(***************************************************************************)
is_header_line(line) ==
    line \in { Chars("#data"), Chars("#errors"), Chars("#new-errors"),
               Chars("#document-fragment"), Chars("#script-on"),
               Chars("#script-off"), Chars("#document") }

\* str::strip_prefix
strip_prefix(s, prefix) ==
    IF starts_with(s, prefix) THEN <<SubSeq(s, Len(prefix) + 1, Len(s))>> ELSE <<>>

\* Mutant of parse_fragment_context_line: every line is a tag name.
parse_fragment_context_line_no_namespace(line) ==
    [namespace |-> <<>>, tag_name |-> trim(line)]

parse_fragment_context_line(line) ==
    LET s == trim(line)
    IN  IF strip_prefix(s, Chars("svg ")) # <<>>
        THEN [namespace |-> <<Chars("svg")>>, tag_name |-> strip_prefix(s, Chars("svg "))[1]]
        ELSE IF strip_prefix(s, Chars("math ")) # <<>>
        THEN [namespace |-> <<Chars("math")>>, tag_name |-> strip_prefix(s, Chars("math "))[1]]
        ELSE [namespace |-> <<>>, tag_name |-> s]

\* str::trim_matches(ch)
RECURSIVE trim_matches(_, _)
trim_matches(s, ch) ==
    IF s # <<>> /\ Head(s) = ch THEN trim_matches(Tail(s), ch)
    ELSE IF s # <<>> /\ s[Len(s)] = ch THEN trim_matches(SubSeq(s, 1, Len(s) - 1), ch)
    ELSE s

\* Mutant of is_case_start: any section marker starts a case.
is_case_start_at_any_marker(line) == is_header_line(line)

\* `line != "#data"` of the outer loop.
is_case_start(line) == line = Chars("#data")

\* `while let Some(&next) = lines.peek()` with a break at a line of the set
\* stop: the index the cursor stands on afterwards (Len(ls) + 1 at the end).
peek_until(ls, i, stop) ==
    LET stops == {j \in i..Len(ls) : ls[j] \in stop}
    IN  IF i > Len(ls) THEN i
        ELSE IF stops = {} THEN Len(ls) + 1
        ELSE CHOOSE j \in stops : \A k \in stops : j <= k

\* Mutant of count_errors: every line counts.
count_errors_with_blank(ls, from, to) == Cardinality(from..to)

\* The error lines from..to that are counted: `!err_line.trim().is_empty()`.
count_errors(ls, from, to) == Cardinality({j \in from..to : trim(ls[j]) # <<>>})

\* Mutant of script_directive_at: either marker switches scripting on.
script_directive_always_on(ls, i) ==
    IF i <= Len(ls) /\ ls[i] \in {Chars("#script-on"), Chars("#script-off")}
    THEN "On" ELSE "Both"

\* The directive read with the cursor on line i.
script_directive_at(ls, i) ==
    IF i <= Len(ls) /\ ls[i] = Chars("#script-on") THEN "On"
    ELSE IF i <= Len(ls) /\ ls[i] = Chars("#script-off") THEN "Off"
    ELSE "Both"

\* The outer `while let Some(line) = lines.next()` with the cursor on line i.
RECURSIVE parse_from(_, _)
parse_from(ls, i) ==
    IF i > Len(ls)
    THEN <<>>
    ELSE IF ~is_case_start(ls[i])
    THEN parse_from(ls, i + 1)
    ELSE LET errors == peek_until(ls, i + 1, {Chars("#errors")})
         IN  IF errors > Len(ls)
             THEN <<>>
             ELSE LET data == join(SubSeq(ls, i + 1, errors - 1), Chars("\n"))
                      headers == {ls[j] : j \in {n \in 1..Len(ls) : is_header_line(ls[n])}}
                      h1 == peek_until(ls, errors + 1, headers)
                      new_errors == h1 <= Len(ls) /\ ls[h1] = Chars("#new-errors")
                      h2 == IF new_errors THEN peek_until(ls, h1 + 1, headers) ELSE h1
                      error_count ==
                          count_errors(ls, errors + 1, h1 - 1)
                            + (IF new_errors THEN count_errors(ls, h1 + 1, h2 - 1) ELSE 0)
                      fragment == h2 <= Len(ls) /\ ls[h2] = Chars("#document-fragment")
                      ctx_line == IF h2 + 1 <= Len(ls) THEN ls[h2 + 1] ELSE <<>>
                      fragment_context ==
                          IF fragment THEN <<parse_fragment_context_line(ctx_line)>> ELSE <<>>
                      s == IF fragment THEN h2 + 2 ELSE h2
                      script_directive == script_directive_at(ls, s)
                      d == IF script_directive = "Both" THEN s ELSE s + 1
                  IN  IF d > Len(ls) \/ ls[d] # Chars("#document")
                      THEN parse_from(ls, d + 1)
                      ELSE LET next == peek_until(ls, d + 1, {Chars("#data")})
                               expected ==
                                   trim_matches(join(SubSeq(ls, d + 1, next - 1), Chars("\n")),
                                                "\n")
                           IN  << [data |-> data,
                                   error_count |-> error_count,
                                   fragment_context |-> fragment_context,
                                   script_directive |-> script_directive,
                                   expected |-> expected,
                                   line |-> i] >>
                                 \o parse_from(ls, next)

parse_tree_construction_dat(text) == parse_from(split(text, "\n"), 1)

(***************************************************************************)
(* parse_tree_construction_dat applied to a file.  DatFiles are files of   *)
(* markers and one-char lines, which may hold several cases; CaseFiles     *)
(* start with `#data` and draw their other lines from every marker and     *)
(* from fragment context lines.                                            *)
(***************************************************************************)
MaxDatLines == 8
MaxCaseLines == 5

DatLines == {Chars("#data"), Chars("#errors"), Chars("#document"), Chars("x")}

CaseLines ==
    { Chars("#data"), Chars("#errors"), Chars("#new-errors"), Chars("#document-fragment"),
      Chars("#script-on"), Chars("#script-off"), Chars("#document"),
      Chars("x"), Chars(" "), Chars(" svg a "), Chars("math a") }

DatFiles ==
    {join(ls, Chars("\n")) : ls \in UNION {[1..n -> DatLines] : n \in 0..MaxDatLines}}

CaseFiles ==
    {join(<<Chars("#data")>> \o ls, Chars("\n")) :
        ls \in UNION {[1..n -> CaseLines] : n \in 0..MaxCaseLines}}

ParseDat ==
    /\ ~ret.called
    /\ ret' = [called |-> TRUE, value |-> parse_tree_construction_dat(content)]
    /\ UNCHANGED <<domVars, runVars, suiteVars, serVars, content>>

InitDat ==
    /\ arena = new_empty("Document")
    /\ root = 1
    /\ EngineIdle
    /\ content \in DatFiles
    /\ ret = NotRead

InitCase ==
    /\ arena = new_empty("Document")
    /\ root = 1
    /\ EngineIdle
    /\ content \in CaseFiles
    /\ ret = NotRead

SpecDat == InitDat /\ [][ParseDat]_vars

SpecCase == InitCase /\ [][ParseDat]_vars

\* The lines of the file.
FileLines == split(content, "\n")

\* The numbers of the lines equal to `#data`.
DataMarkers(ls) == {i \in 1..Len(ls) : ls[i] = Chars("#data")}

\* The least number of set S.
Least(S) == CHOOSE i \in S : \A j \in S : i <= j

\* The number of the first line after line i that is equal to marker, or
\* Len(ls) + 1 when there is none.
NextMarker(ls, i, marker) ==
    Least({j \in (i + 1)..Len(ls) : ls[j] = marker} \cup {Len(ls) + 1})

\* C23: a case starts only at a line exactly equal to `#data` (and its data are
\* the lines up to the next `#errors` line); the emitted cases are at most as
\* many as the `#data` lines and come in file order; the lines before the first
\* `#data` line are ignored; a file whose only `#data` block has no `#errors`
\* line yields zero cases.
C23_CaseStarts ==
    ret.called =>
       LET ls == FileLines
           cases == ret.value
           starts == DataMarkers(ls)
       IN  /\ \A k \in 1..Len(cases) :
                 /\ cases[k].line \in starts
                 /\ cases[k].data =
                       join(SubSeq(ls, cases[k].line + 1,
                                   NextMarker(ls, cases[k].line, Chars("#errors")) - 1),
                            Chars("\n"))
           /\ Len(cases) <= Cardinality(starts)
           /\ \A k \in 1..(Len(cases) - 1) : cases[k].line < cases[k + 1].line
           /\ IF starts = {}
              THEN cases = <<>>
              ELSE LET first == Least(starts)
                       rest == parse_tree_construction_dat(
                                   join(SubSeq(ls, first, Len(ls)), Chars("\n")))
                   IN  cases = [k \in 1..Len(rest) |->
                                   [rest[k] EXCEPT !.line = @ + first - 1]]
           /\ (/\ Cardinality(starts) = 1
               /\ NextMarker(ls, Least(starts), Chars("#errors")) > Len(ls))
                 => cases = <<>>

\* C23 witness: two cases behind a leading line, emitted in file order.
C23_Witness ==
    /\ ret.called
    /\ content = Chars("x\n#data\n#errors\n#document\nx\n#data\n#errors")
                   \o Chars("\n#document")
    /\ Len(ret.value) = 2
    /\ ret.value[1].expected = Chars("x")
    /\ ret.value[2].expected = <<>>

\* C23 witness: the only `#data` block has no `#errors` line.
C23_WitnessNoErrors ==
    /\ ret.called
    /\ content = Chars("#data\nx\n#document\nx")
    /\ ret.value = <<>>

\* The seven section markers.
SectionMarkers ==
    { Chars("#data"), Chars("#errors"), Chars("#new-errors"), Chars("#document-fragment"),
      Chars("#script-on"), Chars("#script-off"), Chars("#document") }

\* The number of the first section marker line after line i, or Len(ls) + 1.
NextSection(ls, i) ==
    Least({j \in (i + 1)..Len(ls) : ls[j] \in SectionMarkers} \cup {Len(ls) + 1})

\* Line i exists and is equal to marker.
LineIs(ls, i, marker) == i <= Len(ls) /\ ls[i] = marker

\* With `#errors` on line e: the numbers of the line behind the first error
\* section (h1), behind the `#new-errors` section if one follows immediately
\* (h2), behind the `#document-fragment` line and its context line (f), and
\* behind one script marker (d): d is the line that has to be `#document`.
SectionsOf(ls, e) ==
    LET h1 == NextSection(ls, e)
        h2 == IF LineIs(ls, h1, Chars("#new-errors")) THEN NextSection(ls, h1) ELSE h1
        f == IF LineIs(ls, h2, Chars("#document-fragment")) THEN h2 + 2 ELSE h2
        d == IF LineIs(ls, f, Chars("#script-on")) \/ LineIs(ls, f, Chars("#script-off"))
             THEN f + 1 ELSE f
    IN  [h1 |-> h1, h2 |-> h2, f |-> f, d |-> d]

\* The block that starts on the `#data` line j follows the grammar: data lines
\* that are no markers, `#errors`, the error section(s), the optional fragment
\* context (no marker) and script marker, `#document`, and expected lines that
\* are no markers up to the next `#data` line or the end.
WellFormedAt(ls, j) ==
    LET e == NextMarker(ls, j, Chars("#errors"))
        sec == SectionsOf(ls, e)
    IN  /\ LineIs(ls, j, Chars("#data"))
        /\ e <= Len(ls)
        /\ \A i \in (j + 1)..(e - 1) : ls[i] \notin SectionMarkers
        /\ sec.f # sec.h2 => ls[sec.f - 1] \notin SectionMarkers
        /\ LineIs(ls, sec.d, Chars("#document"))
        /\ \A i \in (sec.d + 1)..(NextMarker(ls, sec.d, Chars("#data")) - 1) :
              ls[i] \notin SectionMarkers

\* A case that started on line j was emitted, its data being the lines between
\* line j and the next `#errors` line.
EmittedAt(cases, ls, j) ==
    \E k \in 1..Len(cases) :
       /\ cases[k].line = j
       /\ cases[k].data =
             join(SubSeq(ls, j + 1, NextMarker(ls, j, Chars("#errors")) - 1), Chars("\n"))

\* C24: a `#data` block with no `#errors` line before the next `#data` line is
\* not emitted, and every well-formed case that starts at a later `#data` line
\* is emitted with data made of its own lines only.
C24_ResumesAtNextData ==
    ret.called =>
       LET ls == FileLines
           cases == ret.value
       IN  \A i \in DataMarkers(ls) :
              (/\ NextMarker(ls, i, Chars("#data")) <= Len(ls)
               /\ NextMarker(ls, i, Chars("#errors")) > NextMarker(ls, i, Chars("#data")))
                 => /\ \A k \in 1..Len(cases) : cases[k].line # i
                    /\ \A j \in DataMarkers(ls) :
                          (j > i /\ WellFormedAt(ls, j)) => EmittedAt(cases, ls, j)

\* C25: a case whose line behind the error section(s) and the optional fragment
\* and script sections is not `#document` is not emitted, and every well-formed
\* case that starts at a later `#data` line is emitted, also when that `#data`
\* line directly follows the error section of the malformed case.
C25_ResumesAfterMissingDocument ==
    ret.called =>
       LET ls == FileLines
           cases == ret.value
       IN  \A i \in DataMarkers(ls) :
              LET e == NextMarker(ls, i, Chars("#errors"))
              IN  (/\ e < NextMarker(ls, i, Chars("#data"))
                   /\ ~LineIs(ls, SectionsOf(ls, e).d, Chars("#document")))
                     => /\ \A k \in 1..Len(cases) : cases[k].line # i
                        /\ \A j \in DataMarkers(ls) :
                              (j > i /\ WellFormedAt(ls, j)) => EmittedAt(cases, ls, j)

\* Some line of text is equal to a section marker.
HasMarkerLine(text) ==
    \E i \in 1..Len(split(text, "\n")) : split(text, "\n")[i] \in SectionMarkers

\* C26: a line equal to one of the seven section markers ends the section being
\* accumulated: no emitted case has a data text or an expected text with a line
\* equal to a section marker.
C26_MarkersEndSections ==
    ret.called =>
       \A k \in 1..Len(ret.value) :
          /\ ~HasMarkerLine(ret.value[k].data)
          /\ ~HasMarkerLine(ret.value[k].expected)

\* The number of lines from..to that hold a char that is no whitespace.
NonBlank(ls, from, to) ==
    Cardinality({i \in from..to :
                    \E c \in 1..Len(ls[i]) : ls[i][c] \notin {" ", "\t", "\r", "\n"}})

\* C27: error_count of an emitted case is the number of non-blank lines between
\* `#errors` and the next section marker, plus, when that marker is
\* `#new-errors`, the number of non-blank lines between it and the section
\* marker after it.
C27_ErrorCount ==
    ret.called =>
       LET ls == FileLines
       IN  \A k \in 1..Len(ret.value) :
              LET e == NextMarker(ls, ret.value[k].line, Chars("#errors"))
                  h1 == NextSection(ls, e)
              IN  ret.value[k].error_count =
                     NonBlank(ls, e + 1, h1 - 1)
                       + (IF LineIs(ls, h1, Chars("#new-errors"))
                          THEN NonBlank(ls, h1 + 1, NextSection(ls, h1) - 1)
                          ELSE 0)

\* C27 witness: one error line in each of the two error sections.
C27_Witness ==
    /\ ret.called
    /\ content = Chars("#data\n#errors\nx\n#new-errors\nx\n#document")
    /\ Len(ret.value) = 1
    /\ ret.value[1].error_count = 2

\* C27 witness: a blank line in the error section is not counted.
C27_WitnessBlank ==
    /\ ret.called
    /\ content = Chars("#data\n#errors\n \nx\n#document")
    /\ Len(ret.value) = 1
    /\ ret.value[1].error_count = 1

\* A line without the whitespace at its start and at its end.
Trimmed(line) ==
    LET full == {c \in 1..Len(line) : line[c] \notin {" ", "\t", "\r", "\n"}}
    IN  IF full = {}
        THEN <<>>
        ELSE SubSeq(line, Least(full), CHOOSE c \in full : \A b \in full : b <= c)

\* The context a fragment context line stands for.
ContextOf(line) ==
    LET t == Trimmed(line)
    IN  IF Len(t) >= 4 /\ SubSeq(t, 1, 4) = Chars("svg ")
        THEN [namespace |-> <<Chars("svg")>>, tag_name |-> SubSeq(t, 5, Len(t))]
        ELSE IF Len(t) >= 5 /\ SubSeq(t, 1, 5) = Chars("math ")
        THEN [namespace |-> <<Chars("math")>>, tag_name |-> SubSeq(t, 6, Len(t))]
        ELSE [namespace |-> <<>>, tag_name |-> t]

\* C28: fragment_context is present exactly when a `#document-fragment` line
\* follows the error section(s); the one line behind it is the context, and the
\* line after that is the script marker or `#document`; the trimmed context line
\* with prefix `svg ` gives namespace svg, with prefix `math ` namespace math,
\* the tag name being the remainder, and any other line gives no namespace and
\* the whole trimmed line as tag name.
C28_FragmentContext ==
    ret.called =>
       LET ls == FileLines
       IN  \A k \in 1..Len(ret.value) :
              LET h2 == SectionsOf(ls, NextMarker(ls, ret.value[k].line, Chars("#errors"))).h2
                  ctx == ret.value[k].fragment_context
              IN  IF LineIs(ls, h2, Chars("#document-fragment"))
                  THEN /\ ctx = <<ContextOf(ls[h2 + 1])>>
                       /\ \/ LineIs(ls, h2 + 2, Chars("#document"))
                          \/ /\ ret.value[k].script_directive # "Both"
                             /\ LineIs(ls, h2 + 3, Chars("#document"))
                  ELSE ctx = <<>>

\* C28 witness: the context line `svg a` with a space before and behind it.
C28_Witness ==
    /\ ret.called
    /\ content = Chars("#data\n#errors\n#document-fragment\n svg a \n#document")
    /\ Len(ret.value) = 1
    /\ ret.value[1].fragment_context =
          <<[namespace |-> <<Chars("svg")>>, tag_name |-> Chars("a")]>>

\* C28 witness: the context line `math a`, followed by a script marker.
C28_WitnessMath ==
    /\ ret.called
    /\ content = Chars("#data\n#errors\n#document-fragment\nmath a\n#script-off\n#document")
    /\ Len(ret.value) = 1
    /\ ret.value[1].fragment_context =
          <<[namespace |-> <<Chars("math")>>, tag_name |-> Chars("a")]>>

\* C28 witness: a context line without namespace, and a case without context.
C28_WitnessPlain ==
    /\ ret.called
    /\ \/ /\ content = Chars("#data\n#errors\n#document-fragment\nx\n#document")
          /\ Len(ret.value) = 1
          /\ ret.value[1].fragment_context = <<[namespace |-> <<>>, tag_name |-> Chars("x")]>>
       \/ /\ content = Chars("#data\n#errors\n#document")
          /\ Len(ret.value) = 1
          /\ ret.value[1].fragment_context = <<>>

\* C29: a fragment_context that is present has a non-empty tag name.
C29_TagNameNonEmpty ==
    ret.called =>
       \A k \in 1..Len(ret.value) :
          ret.value[k].fragment_context # <<>>
             => ret.value[k].fragment_context[1].tag_name # <<>>

\* C30 as stated: script_directive is On when the line directly before the
\* `#document` line of the case is `#script-on`, Off when it is `#script-off`,
\* and Both otherwise.
C30_MarkerBeforeDocument ==
    ret.called =>
       LET ls == FileLines
       IN  \A k \in 1..Len(ret.value) :
              LET d == SectionsOf(ls, NextMarker(ls, ret.value[k].line, Chars("#errors"))).d
              IN  ret.value[k].script_directive =
                     IF LineIs(ls, d - 1, Chars("#script-on")) THEN "On"
                     ELSE IF LineIs(ls, d - 1, Chars("#script-off")) THEN "Off"
                     ELSE "Both"

\* C30 amended: with f the line behind the error section(s) and behind the
\* `#document-fragment` line and its one context line when there is one,
\* script_directive is On when line f is `#script-on`, Off when it is
\* `#script-off`, and Both otherwise; `#document` is line f + 1 in the first two
\* cases and line f in the third, so at most one script marker is consumed.  A
\* `#script-on` or `#script-off` line that is the fragment context line is the
\* tag name and sets no directive.
C30_ScriptDirective ==
    ret.called =>
       LET ls == FileLines
       IN  \A k \in 1..Len(ret.value) :
              LET f == SectionsOf(ls, NextMarker(ls, ret.value[k].line, Chars("#errors"))).f
                  directive == ret.value[k].script_directive
              IN  /\ directive = (IF LineIs(ls, f, Chars("#script-on")) THEN "On"
                                  ELSE IF LineIs(ls, f, Chars("#script-off")) THEN "Off"
                                  ELSE "Both")
                  /\ LineIs(ls, IF directive = "Both" THEN f ELSE f + 1, Chars("#document"))

\* C30 witness: `#script-on` behind a fragment context.
C30_Witness ==
    /\ ret.called
    /\ content = Chars("#data\n#errors\n#document-fragment\nx\n#script-on\n#document")
    /\ Len(ret.value) = 1
    /\ ret.value[1].script_directive = "On"

\* C30 witness: `#script-off`, and no marker.
C30_WitnessOff ==
    /\ ret.called
    /\ \/ /\ content = Chars("#data\n#errors\n#script-off\n#document")
          /\ Len(ret.value) = 1
          /\ ret.value[1].script_directive = "Off"
       \/ /\ content = Chars("#data\n#errors\n#document")
          /\ Len(ret.value) = 1
          /\ ret.value[1].script_directive = "Both"

\* C30 witness: the fragment context line is `#script-on`; the directive is Both.
C30_WitnessContextLine ==
    /\ ret.called
    /\ content = Chars("#data\n#errors\n#document-fragment\n#script-on\n#document")
    /\ Len(ret.value) = 1
    /\ ret.value[1].script_directive = "Both"
    /\ ret.value[1].fragment_context =
          <<[namespace |-> <<>>, tag_name |-> Chars("#script-on")]>>

\* C31: expected of an emitted case is the lines after `#document` up to the
\* next `#data` line or the end of input, joined with newline, without the
\* blank lines at its start and end and without the whitespace at the end of
\* the lines that are kept.
C31_ExpectedStripped ==
    ret.called =>
       LET ls == FileLines
       IN  \A k \in 1..Len(ret.value) :
              LET d == SectionsOf(ls, NextMarker(ls, ret.value[k].line, Chars("#errors"))).d
                  section == SubSeq(ls, d + 1, NextMarker(ls, d, Chars("#data")) - 1)
              IN  ret.value[k].expected =
                     join(WithoutBlankEnds(join(section, Chars("\n"))), Chars("\n"))

(***************************************************************************)
(* src/html5lib.rs: parse_json.                                            *)
(*                                                                         *)
(* The input is the sequence of its bytes, a byte being written as the     *)
(* ASCII char it is; `i` is JsonParser.i, an offset counted from 0.  A     *)
(* Result is [ok |-> TRUE, value, i] (the value and the offset behind it)  *)
(* or [ok |-> FALSE, message, offset] (a JsonParseError).  An i64 is kept  *)
(* as its sign and its decimal digits, a String as the sequence of the     *)
(* scalar values of its chars, a Vec<u8> as a sequence of numbers.         *)
(***************************************************************************)
Ok(value, i) == [ok |-> TRUE, value |-> value, i |-> i]

err(message, i) == [ok |-> FALSE, message |-> message, offset |-> i]

\* The number of a byte.
byte(ch) ==
    CASE ch = "\t" -> 9
      [] ch = "\r" -> 13
      [] OTHER -> CodePoint(ch)

peek(input, i) == IF i < Len(input) THEN <<input[i + 1]>> ELSE <<>>

RECURSIVE skip_ws(_, _)
skip_ws(input, i) ==
    IF i < Len(input) /\ input[i + 1] \in {" ", "\n", "\r", "\t"}
    THEN skip_ws(input, i + 1)
    ELSE i

\* self.input.get(i..i + n) == Some(word)
slice_is(input, i, word) ==
    /\ i + Len(word) <= Len(input)
    /\ SubSeq(input, i + 1, i + Len(word)) = word

parse_null(input, i) ==
    IF slice_is(input, i, Chars("null"))
    THEN Ok([kind |-> "Null"], i + 4)
    ELSE err("expected null", i)

parse_bool(input, i) ==
    IF slice_is(input, i, Chars("true"))
    THEN Ok([kind |-> "Bool", b |-> TRUE], i + 4)
    ELSE IF slice_is(input, i, Chars("false"))
    THEN Ok([kind |-> "Bool", b |-> FALSE], i + 5)
    ELSE err("expected boolean", i)

is_digit(ch) == ch \in {"0", "1", "2", "3", "4", "5", "6", "7", "8", "9"}

\* `while let Some(b'0'..=b'9') = self.peek()`: the offset behind the digits.
RECURSIVE digits_end(_, _)
digits_end(input, i) ==
    IF i < Len(input) /\ is_digit(input[i + 1]) THEN digits_end(input, i + 1) ELSE i

RECURSIVE strip_zeros(_)
strip_zeros(digits) ==
    IF Len(digits) > 1 /\ Head(digits) = "0" THEN strip_zeros(Tail(digits)) ELSE digits

\* a <= b for two decimal numbers without leading zeros.
decimal_le(a, b) ==
    \/ Len(a) < Len(b)
    \/ /\ Len(a) = Len(b)
       /\ \/ a = b
          \/ \E k \in 1..Len(a) :
                /\ SubSeq(a, 1, k - 1) = SubSeq(b, 1, k - 1)
                /\ CodePoint(a[k]) < CodePoint(b[k])

\* str::parse::<i64> of an optional `-` and one or more digits: None on overflow.
parse_i64(s) ==
    LET negative == Head(s) = "-"
        magnitude == strip_zeros(IF negative THEN Tail(s) ELSE s)
        limit == IF negative THEN Chars("9223372036854775808")
                 ELSE Chars("9223372036854775807")
    IN  IF decimal_le(magnitude, limit)
        THEN <<[negative |-> negative /\ magnitude # Chars("0"), magnitude |-> magnitude]>>
        ELSE <<>>

\* Mutant of parse_number: a fraction or an exponent is read over and dropped.
parse_number_truncating(input, i) ==
    LET i1 == IF peek(input, i) = <<"-">> THEN i + 1 ELSE i
        i2 == digits_end(input, i1)
        i3 == IF peek(input, i2) \in {<<".">>, <<"e">>, <<"E">>}
              THEN digits_end(input, i2 + 1) ELSE i2
        n == parse_i64(SubSeq(input, i + 1, i2))
    IN  IF i2 = i1 THEN err("expected digits", i2)
        ELSE IF n = <<>> THEN err("invalid number", i3)
        ELSE Ok([kind |-> "Number", n |-> n[1]], i3)

parse_number(input, i) ==
    LET i1 == IF peek(input, i) = <<"-">> THEN i + 1 ELSE i
        i2 == digits_end(input, i1)
        n == parse_i64(SubSeq(input, i + 1, i2))
    IN  IF i2 = i1 THEN err("expected digits", i2)
        ELSE IF peek(input, i2) \in {<<".">>, <<"e">>, <<"E">>}
        THEN err("non-integer numbers not supported", i2)
        ELSE IF n = <<>> THEN err("invalid number", i2)
        ELSE Ok([kind |-> "Number", n |-> n[1]], i2)

\* The value of a hex digit, or None.
hex_digit(ch) ==
    LET lower == "0123456789abcdef"
        upper == "0123456789ABCDEF"
    IN  IF \E k \in 1..16 : SubSeq(lower, k, k) = ch
        THEN <<(CHOOSE k \in 1..16 : SubSeq(lower, k, k) = ch) - 1>>
        ELSE IF \E k \in 1..16 : SubSeq(upper, k, k) = ch
        THEN <<(CHOOSE k \in 1..16 : SubSeq(upper, k, k) = ch) - 1>>
        ELSE <<>>

\* parse_hex_u16 with `left` digits to read and v read so far.
RECURSIVE hex_loop(_, _, _, _)
hex_loop(input, i, left, v) ==
    IF left = 0 THEN Ok(v, i)
    ELSE IF i >= Len(input) THEN err("unexpected EOF in \\u", i)
    ELSE IF hex_digit(input[i + 1]) = <<>> THEN err("invalid hex digit", i + 1)
    ELSE hex_loop(input, i + 1, left - 1, ((v * 16) % 65536) + hex_digit(input[i + 1])[1])

parse_hex_u16(input, i) == hex_loop(input, i, 4, 0)

\* char::from_u32
char_from_u32(n) == IF n \in 55296..57343 \/ n > 1114111 THEN <<>> ELSE <<n>>

\* char::encode_utf8
encode_utf8(cp) ==
    IF cp < 128 THEN <<cp>>
    ELSE IF cp < 2048 THEN <<192 + (cp \div 64), 128 + (cp % 64)>>
    ELSE IF cp < 65536
    THEN <<224 + (cp \div 4096), 128 + ((cp \div 64) % 64), 128 + (cp % 64)>>
    ELSE <<240 + (cp \div 262144), 128 + ((cp \div 4096) % 64),
           128 + ((cp \div 64) % 64), 128 + (cp % 64)>>

\* String::from_utf8: the chars of well-formed bytes, or None.
RECURSIVE from_utf8(_)
from_utf8(bytes) ==
    IF bytes = <<>> THEN <<<<>>>>
    ELSE LET b == Head(bytes)
             n == IF b < 128 THEN 1
                  ELSE IF b \in 194..223 THEN 2
                  ELSE IF b \in 224..239 THEN 3
                  ELSE IF b \in 240..244 THEN 4
                  ELSE 0
             cont(k) == bytes[k] - 128
             cp == CASE n = 1 -> b
                     [] n = 2 -> ((b - 192) * 64) + cont(2)
                     [] n = 3 -> ((b - 224) * 4096) + (cont(2) * 64) + cont(3)
                     [] OTHER -> ((b - 240) * 262144) + (cont(2) * 4096) + (cont(3) * 64) + cont(4)
         IN  IF n = 0 \/ Len(bytes) < n \/ \E k \in 2..n : bytes[k] \notin 128..191
             THEN <<>>
             ELSE IF char_from_u32(cp) = <<>> \/ encode_utf8(cp) # SubSeq(bytes, 1, n)
             THEN <<>>
             ELSE LET rest == from_utf8(SubSeq(bytes, n + 1, Len(bytes)))
                  IN  IF rest = <<>> THEN <<>> ELSE <<<<cp>> \o rest[1]>>

\* Mutant of combine_surrogates: the low surrogate is dropped.
combine_surrogates_high_only(hi, lo) == 65536 + ((hi - 55296) * 1024)

\* 0x10000 + ((hi << 10) | lo) of the code units code and low.
combine_surrogates(hi, lo) == 65536 + (((hi - 55296) * 1024) + (lo - 56320))

\* The `while let Some(b) = self.bump()` loop of parse_string, buf being `out`.
RECURSIVE string_loop(_, _, _)
string_loop(input, i, buf) ==
    IF i >= Len(input)
    THEN err("unexpected EOF in string", i)
    ELSE LET b == input[i + 1]
             j == i + 1
         IN  CASE b = "\"" ->
                    IF from_utf8(buf) = <<>>
                    THEN err("invalid utf-8", j)
                    ELSE Ok(from_utf8(buf)[1], j)
               [] b = "\\" ->
                    IF j >= Len(input)
                    THEN err("unexpected EOF in escape", j)
                    ELSE LET esc == input[j + 1]
                             k == j + 1
                         IN  CASE esc = "\"" -> string_loop(input, k, Append(buf, 34))
                               [] esc = "\\" -> string_loop(input, k, Append(buf, 92))
                               [] esc = "/" -> string_loop(input, k, Append(buf, 47))
                               [] esc = "b" -> string_loop(input, k, Append(buf, 8))
                               [] esc = "f" -> string_loop(input, k, Append(buf, 12))
                               [] esc = "n" -> string_loop(input, k, Append(buf, 10))
                               [] esc = "r" -> string_loop(input, k, Append(buf, 13))
                               [] esc = "t" -> string_loop(input, k, Append(buf, 9))
                               [] esc = "u" ->
                                    LET code == parse_hex_u16(input, k)
                                        low == parse_hex_u16(input, code.i + 2)
                                    IN  IF ~code.ok THEN code
                                        ELSE IF code.value \in 55296..56319
                                        THEN IF code.i >= Len(input)
                                             THEN err("expected low surrogate", code.i)
                                             ELSE IF input[code.i + 1] # "\\"
                                             THEN err("expected low surrogate", code.i + 1)
                                             ELSE IF code.i + 1 >= Len(input)
                                             THEN err("expected low surrogate", code.i + 1)
                                             ELSE IF input[code.i + 2] # "u"
                                             THEN err("expected low surrogate", code.i + 2)
                                             ELSE IF ~low.ok THEN low
                                             ELSE IF low.value \notin 56320..57343
                                             THEN err("invalid low surrogate", low.i)
                                             ELSE IF char_from_u32(combine_surrogates(
                                                         code.value, low.value)) = <<>>
                                             THEN err("invalid codepoint", low.i)
                                             ELSE string_loop(input, low.i,
                                                      buf \o encode_utf8(combine_surrogates(
                                                                 code.value, low.value)))
                                        ELSE IF char_from_u32(code.value) = <<>>
                                        THEN err("invalid codepoint", code.i)
                                        ELSE string_loop(input, code.i,
                                                         buf \o encode_utf8(code.value))
                               [] OTHER -> err("unknown escape", k)
               [] OTHER ->
                    IF byte(b) < 32
                    THEN err("control character in string", j)
                    ELSE string_loop(input, j, Append(buf, byte(b)))

parse_string(input, i) ==
    IF i >= Len(input) THEN err("expected '\"'", i)
    ELSE IF input[i + 1] # "\"" THEN err("expected '\"'", i + 1)
    ELSE string_loop(input, i + 1, <<>>)

RECURSIVE parse_value(_, _)
\* The `loop` of parse_array with the cursor before a value.
RECURSIVE array_loop(_, _, _)
array_loop(input, i, items) ==
    LET v == parse_value(input, i)
        i1 == skip_ws(input, v.i)
    IN  IF ~v.ok THEN v
        ELSE IF i1 >= Len(input) THEN err("unexpected EOF in array", i1)
        ELSE IF input[i1 + 1] = ","
        THEN array_loop(input, skip_ws(input, i1 + 1), Append(items, v.value))
        ELSE IF input[i1 + 1] = "]"
        THEN Ok([kind |-> "Array", items |-> Append(items, v.value)], i1 + 1)
        ELSE err("expected ',' or ']'", i1 + 1)

parse_array(input, i) ==
    LET i1 == skip_ws(input, i + 1)
    IN  IF peek(input, i1) = <<"]">>
        THEN Ok([kind |-> "Array", items |-> <<>>], i1 + 1)
        ELSE array_loop(input, i1, <<>>)

\* The `loop` of parse_object with the cursor before a key.
RECURSIVE object_loop(_, _, _)
object_loop(input, i, items) ==
    LET key == parse_string(input, skip_ws(input, i))
        i2 == skip_ws(input, key.i)
        v == parse_value(input, i2 + 1)
        i3 == skip_ws(input, v.i)
    IN  IF ~key.ok THEN key
        ELSE IF i2 >= Len(input) THEN err("expected ':'", i2)
        ELSE IF input[i2 + 1] # ":" THEN err("expected ':'", i2 + 1)
        ELSE IF ~v.ok THEN v
        ELSE IF i3 >= Len(input) THEN err("unexpected EOF in object", i3)
        ELSE IF input[i3 + 1] = ","
        THEN object_loop(input, skip_ws(input, i3 + 1),
                         Append(items, [key |-> key.value, value |-> v.value]))
        ELSE IF input[i3 + 1] = "}"
        THEN Ok([kind |-> "Object",
                 items |-> Append(items, [key |-> key.value, value |-> v.value])], i3 + 1)
        ELSE err("expected ',' or '}'", i3 + 1)

parse_object(input, i) ==
    LET i1 == skip_ws(input, i + 1)
    IN  IF peek(input, i1) = <<"}">>
        THEN Ok([kind |-> "Object", items |-> <<>>], i1 + 1)
        ELSE object_loop(input, i1, <<>>)

parse_value(input, i0) ==
    LET i == skip_ws(input, i0)
        b == input[i + 1]
        s == parse_string(input, i)
    IN  IF i >= Len(input) THEN err("unexpected EOF", i)
        ELSE CASE b = "n" -> parse_null(input, i)
               [] b \in {"t", "f"} -> parse_bool(input, i)
               [] b = "-" \/ is_digit(b) -> parse_number(input, i)
               [] b = "\"" ->
                    IF s.ok THEN Ok([kind |-> "String", s |-> s.value], s.i) ELSE s
               [] b = "[" -> parse_array(input, i)
               [] b = "{" -> parse_object(input, i)
               [] OTHER -> err("unexpected character", i)

\* Mutant of parse_json: what follows the value is not looked at.
parse_json_prefix(input) == parse_value(input, skip_ws(input, 0))

parse_json(input) ==
    LET value == parse_value(input, skip_ws(input, 0))
        i == skip_ws(input, value.i)
    IN  IF ~value.ok THEN value
        ELSE IF i # Len(input) THEN err("trailing characters", i)
        ELSE Ok(value.value, i)

(***************************************************************************)
(* JSON texts handed to parse_json: up to MaxJsonPieces pieces of one of   *)
(* three kinds, written one behind the other.                              *)
(***************************************************************************)
MaxJsonPieces == 4

\* Numbers: signs, digits, the two integers around the largest i64,
\* fractions and exponents, inside and outside an array.
NumberPieces ==
    {Chars("-"), Chars("0"), Chars("1"), Chars("."), Chars("e"), Chars("E"),
     Chars(" "), Chars("["), Chars("]"),
     Chars("9223372036854775807"), Chars("9223372036854775808")}

\* Strings: the quote, a char, the escape \n, and \u escapes below, in and
\* above the two surrogate ranges.
StringPieces ==
    {Chars("\""), Chars("a"), Chars("\\n"), Chars("\\u0041"), Chars("\\uD7FF"),
     Chars("\\uD83D"), Chars("\\uDBFF"), Chars("\\uDC00"), Chars("\\uDE00"),
     Chars("\\uE000")}

\* Values of every kind, a key with its colon, the punctuation of arrays and
\* objects, whitespace.
ValuePieces ==
    {Chars("null"), Chars("true"), Chars("1"), Chars("\"a\""), Chars("["), Chars("]"),
     Chars("{"), Chars("}"), Chars("\"a\":"), Chars(","), Chars(" "), Chars("\t"),
     Chars("\n")}

\* The texts of up to n pieces.
JsonTexts(pieces, n) ==
    {join(ps, <<>>) : ps \in UNION {[1..m -> pieces] : m \in 0..n}}

ParseJson ==
    /\ ~ret.called
    /\ ret' = [called |-> TRUE, value |-> parse_json(content)]
    /\ UNCHANGED <<domVars, runVars, suiteVars, serVars, content>>

InitJson ==
    /\ arena = new_empty("Document")
    /\ root = 1
    /\ EngineIdle
    /\ content \in JsonTexts(NumberPieces, MaxJsonPieces)
                 \cup JsonTexts(StringPieces, MaxJsonPieces)
                 \cup JsonTexts(ValuePieces, MaxJsonPieces)
    /\ ret = NotRead

SpecJson == InitJson /\ [][ParseJson]_vars

\* A text that is an optional `-` followed by one or more digits.
IsIntegerText(t) ==
    LET digits == IF t # <<>> /\ Head(t) = "-" THEN Tail(t) ELSE t
    IN  /\ digits # <<>>
        /\ \A k \in 1..Len(digits) : is_digit(digits[k])

\* The digits of an integer text without the zeros in front.
Magnitude(t) == strip_zeros(IF Head(t) = "-" THEN Tail(t) ELSE t)

\* The integer of the text is between -2^63 and 2^63 - 1.
FitsI64(t) ==
    IF Head(t) = "-"
    THEN decimal_le(Magnitude(t), Chars("9223372036854775808"))
    ELSE decimal_le(Magnitude(t), Chars("9223372036854775807"))

\* A digit of the text is directly followed by `.`, `e` or `E`.
DigitsBeforePoint(t) ==
    \E k \in 1..(Len(t) - 1) : is_digit(t[k]) /\ t[k + 1] \in {".", "e", "E"}

\* C32: parse_json returns an error for every input (without a string) in
\* which digits are directly followed by `.`, `e` or `E`; the input is read
\* as a number only when it is, between whitespace, an optional `-` followed
\* by one or more digits whose value fits an i64, the number read is that
\* value, and such a text is refused exactly when its value does not fit.
C32_IntegersOnly ==
    ret.called =>
       LET t == Trimmed(content)
           r == ret.value
       IN  /\ (DigitsBeforePoint(content) /\ \A k \in 1..Len(content) : content[k] # "\"")
                 => ~r.ok
           /\ (r.ok /\ r.value.kind = "Number")
                 => /\ IsIntegerText(t)
                    /\ FitsI64(t)
                    /\ r.value.n.magnitude = Magnitude(t)
                    /\ r.value.n.negative = (Head(t) = "-" /\ Magnitude(t) # Chars("0"))
           /\ IsIntegerText(t) => (r.ok <=> FitsI64(t))
           /\ (IsIntegerText(t) /\ r.ok) => r.value.kind = "Number"

\* C32 witness: a negative number with a fraction is refused at the point.
C32_Witness ==
    /\ ret.called
    /\ content = Chars("-1.0")
    /\ ret.value = err("non-integer numbers not supported", 2)

\* C32 witness: the least i64 is read.
C32_WitnessLeast ==
    /\ ret.called
    /\ content = Chars(" -9223372036854775808")
    /\ ret.value.ok
    /\ ret.value.value =
          [kind |-> "Number",
           n |-> [negative |-> TRUE, magnitude |-> Chars("9223372036854775808")]]

\* C32 witness: the integer behind the largest i64 is refused.
C32_WitnessOverflow ==
    /\ ret.called
    /\ content = Chars("9223372036854775808")
    /\ ret.value = err("invalid number", 19)

\* C32 witness: an exponent inside an array is refused.
C32_WitnessExponent ==
    /\ ret.called
    /\ content = Chars("[1E1")
    /\ ret.value = err("non-integer numbers not supported", 2)

\* The places of text t where a \u escape with four hex digits starts.
UnicodeEscapes(t) ==
    {k \in 1..(Len(t) - 5) :
        /\ t[k] = "\\"
        /\ t[k + 1] = "u"
        /\ \A d \in 2..5 : hex_digit(t[k + d]) # <<>>}

\* The code unit that the escape at place k of t names.
EscapeUnit(t, k) ==
    (hex_digit(t[k + 2])[1] * 4096) + (hex_digit(t[k + 3])[1] * 256)
       + (hex_digit(t[k + 4])[1] * 16) + hex_digit(t[k + 5])[1]

\* D800..DBFF and DC00..DFFF
IsHighSurrogate(u) == u \in 55296..56319

IsLowSurrogate(u) == u \in 56320..57343

\* The escape at place k of t is a high surrogate directly followed by the
\* escape of a low surrogate.
PairAt(t, k) ==
    /\ k \in UnicodeEscapes(t)
    /\ IsHighSurrogate(EscapeUnit(t, k))
    /\ k + 6 \in UnicodeEscapes(t)
    /\ IsLowSurrogate(EscapeUnit(t, k + 6))

\* Text t holds a high surrogate that no low surrogate follows directly, or
\* a low surrogate that no high surrogate precedes directly.
LoneSurrogate(t) ==
    \E k \in UnicodeEscapes(t) :
       \/ IsHighSurrogate(EscapeUnit(t, k)) /\ ~PairAt(t, k)
       \/ IsLowSurrogate(EscapeUnit(t, k)) /\ ~PairAt(t, k - 6)

\* The chars that a well-formed string literal names from place k of t on up
\* to its closing quote: one code point for a surrogate pair.
RECURSIVE Decoded(_, _)
Decoded(t, k) ==
    IF k > Len(t) \/ t[k] = "\"" THEN <<>>
    ELSE IF PairAt(t, k)
    THEN <<65536 + (((EscapeUnit(t, k) - 55296) * 1024) + (EscapeUnit(t, k + 6) - 56320))>>
            \o Decoded(t, k + 12)
    ELSE IF k \in UnicodeEscapes(t) THEN <<EscapeUnit(t, k)>> \o Decoded(t, k + 6)
    ELSE IF t[k] = "\\" /\ t[k + 1] = "n" THEN <<10>> \o Decoded(t, k + 2)
    ELSE <<byte(t[k])>> \o Decoded(t, k + 1)

\* C33: a high-surrogate \u escape directly followed by a low-surrogate \u
\* escape decodes to the single code point 0x10000 + ((hi - 0xD800) << 10 |
\* (lo - 0xDC00)); an input with a high surrogate that no such escape follows,
\* or with a low surrogate that no high surrogate precedes, gives an error.
C33_SurrogatePairs ==
    ret.called =>
       /\ LoneSurrogate(content) => ~ret.value.ok
       /\ (ret.value.ok /\ ret.value.value.kind = "String")
             => ret.value.value.s = Decoded(Trimmed(content), 2)

\* C33 witness: a pair is read as one char of the supplementary planes.
C33_Witness ==
    /\ ret.called
    /\ content = Chars("\"\\uD83D\\uDE00\"")
    /\ ret.value.ok
    /\ ret.value.value = [kind |-> "String", s |-> <<128512>>]

\* C33 witness: a high surrogate followed by a char is refused.
C33_WitnessLoneHigh ==
    /\ ret.called
    /\ content = Chars("\"\\uD83Da\"")
    /\ ret.value = err("expected low surrogate", 8)

\* C33 witness: a high surrogate followed by an escape outside DC00..DFFF is
\* refused.
C33_WitnessNotLow ==
    /\ ret.called
    /\ content = Chars("\"\\uDBFF\\uE000\"")
    /\ ret.value = err("invalid low surrogate", 13)

\* C33 witness: a low surrogate at the start of the string is refused.
C33_WitnessLoneLow ==
    /\ ret.called
    /\ content = Chars("\"\\uDC00\"")
    /\ ret.value = err("invalid codepoint", 7)

\* C33 witness: a low surrogate behind a complete pair is refused.
C33_WitnessSecondLow ==
    /\ ret.called
    /\ content = Chars("\"\\uD83D\\uDE00\\uDC00")
    /\ ret.value = err("invalid codepoint", 19)

\* The places of text t from place k on that hold no whitespace.
NonSpaceFrom(t, k) == {j \in k..Len(t) : t[j] \notin {" ", "\t", "\r", "\n"}}

\* Bytes that are no whitespace, to be written behind a text.
TrailingBytes == {"1", "]", "}", ",", "n", "\"", "x"}

\* C34: parse_json succeeds only when the input is one value between
\* optional whitespace (space, tab, CR, LF): the value read first is followed
\* by whitespace only, the result is that of the input without the
\* whitespace around it, and a further byte behind the input makes it an
\* error; a byte that is no whitespace behind the first value gives the
\* error `trailing characters` at its place; the offset of every error is
\* between 0 and the length of the input.
C34_WholeInput ==
    ret.called =>
       LET r == ret.value
           v == parse_value(content, skip_ws(content, 0))
           t == Trimmed(content)
       IN  /\ r.ok => /\ v.ok
                      /\ NonSpaceFrom(content, v.i + 1) = {}
                      /\ r.value = v.value
                      /\ t # <<>>
                      /\ parse_json(t) = Ok(r.value, Len(t))
                      /\ \A b \in TrailingBytes : ~parse_json(content \o <<" ", b>>).ok
           /\ (v.ok /\ NonSpaceFrom(content, v.i + 1) # {})
                 => r = err("trailing characters", Least(NonSpaceFrom(content, v.i + 1)) - 1)
           /\ ~v.ok => r = v
           /\ ~r.ok => r.offset \in 0..Len(content)

\* C34 witness: a value between a tab and a newline is read.
C34_Witness ==
    /\ ret.called
    /\ content = Chars("\t[]\n")
    /\ ret.value = Ok([kind |-> "Array", items |-> <<>>], 4)

\* C34 witness: a second value behind the first one is refused at its place.
C34_WitnessTrailing ==
    /\ ret.called
    /\ content = Chars("1 1")
    /\ ret.value = err("trailing characters", 2)

\* C34 witness: an object with one member is read.
C34_WitnessObject ==
    /\ ret.called
    /\ content = Chars("{\"a\":1}")
    /\ ret.value.ok
    /\ ret.value.value.kind = "Object"
    /\ Len(ret.value.value.items) = 1

\* C34 witness: an error at the end of the input has the length as offset.
C34_WitnessEnd ==
    /\ ret.called
    /\ content = Chars("[1,")
    /\ ret.value = err("unexpected EOF", 3)

\* With --fail-fast, worker w has recorded at most one failure; the failure
\* is that of its last execution, or that of an unreadable file, and every
\* execution before it passed; a worker that has left its loop has failed
\* itself or has run all its files.
FailFastWorker(w) ==
    LET s == worker[w].summary
        runs == worker[w].runs
        f == s.failures[1]
    IN  /\ s.failed <= 1
        /\ s.failed = 1 =>
              /\ worker[w].pc # "run"
              /\ Len(s.failures) = 1
              /\ f.file = worker[w].paths[worker[w].next - 1]
              /\ IF f.script = "n/a"
                 THEN s.passed = Len(runs) /\ ~files[f.file].readable
                 ELSE /\ runs # <<>>
                      /\ runs[Len(runs)] = <<f.file, f.case_index, f.script>>
                      /\ s.passed = Len(runs) - 1
        /\ worker[w].pc # "run" =>
              s.failed = 1 \/ worker[w].next > Len(worker[w].paths)

\* C35: with --fail-fast a worker starts no execution (case, second script
\* mode or file) after it has recorded a failure, so the Summary of every
\* worker has failed <= 1 and the merged failed count is at most the number
\* of spawned workers; a worker leaves its loop early only on its own failure.
C35_FailFast ==
    /\ [](config.fail_fast =>
             /\ \A w \in 1..Len(worker) : FailFastWorker(w)
             /\ all.failed <= Len(worker))
    /\ [][config.fail_fast =>
             \A w \in 1..Len(worker) :
                worker[w].summary.failed > 0 =>
                   /\ worker'[w].runs = worker[w].runs
                   /\ worker'[w].summary = worker[w].summary
                   /\ worker'[w].next = worker[w].next]_vars

\* C35 witness: the first worker has stopped at the first execution of its
\* first file of two, the second worker has run its file, both are merged.
C35_Witness ==
    /\ pc = "done"
    /\ config.fail_fast
    /\ Len(worker) = 2
    /\ Len(worker[1].paths) = 2
    /\ worker[1].next = 2
    /\ worker[1].runs = <<<<1, 0, "on">>>>
    /\ worker[1].summary.failed = 1
    /\ worker[2].summary.passed = 1
    /\ received = <<1, 2>>
    /\ all.failed = 1
    /\ all.total = 2

\* C36: the failure list of a worker has at most min(failed, max_failures)
\* records; a worker about to call run_tree_file has a remaining cap of at
\* least 1; and the Summary that run_tree_file returns for a remaining cap of
\* at least 1 has at most min(failed, cap) records, for an unreadable file too.
C36_WorkerListWithinCap ==
    /\ config.max_failures >= 1
    /\ \A w \in 1..Len(worker) :
          LET s == worker[w].summary
          IN  /\ Len(s.failures) <= Min(s.failed, config.max_failures)
              /\ worker[w].pc = "run" =>
                    saturating_sub(config.max_failures, Len(s.failures)) >= 1
    /\ \A path \in 1..Len(files), cap \in 1..config.max_failures :
          LET s == run_tree_file(path, cap, config.fail_fast)
          IN  Len(s.failures) <= Min(s.failed, cap)

\* C36 witness: two unreadable files in one chunk fill a list of two, and
\* the worker has left its loop with a file of its chunk not run.
C36_Witness ==
    /\ config.max_failures = 2
    /\ ~config.fail_fast
    /\ Len(worker) = 1
    /\ worker[1].pc = "send"
    /\ Len(worker[1].paths) = 3
    /\ worker[1].next = 3
    /\ worker[1].summary.failed = 2
    /\ Len(worker[1].summary.failures) = 2
    /\ \A k \in 1..2 : worker[1].summary.failures[k].script = "n/a"

\* C36 witness: more failures counted than recorded.
C36_WitnessCounted ==
    /\ config.max_failures = 1
    /\ Len(worker) = 1
    /\ worker[1].pc = "done"
    /\ worker[1].summary.failed = 2
    /\ Len(worker[1].summary.failures) = 1

\* C36 witness: a worker calls run_tree_file with a remaining cap of 1 of 2.
C36_WitnessRemaining ==
    /\ config.max_failures = 2
    /\ Len(worker) = 1
    /\ worker[1].pc = "run"
    /\ Len(worker[1].summary.failures) = 1

(***************************************************************************)
(* The run under the scheduling of the threads: the main thread and every  *)
(* spawned thread take their next step when it stays possible (a call of   *)
(* run_tree_file returns, send does not block on the unbounded channel).   *)
(***************************************************************************)
MainStep == Begin \/ Spawn \/ DropTx \/ Recv \/ RecvEnd

\* A step of Report, told by the position of main.
Reports == pc = "report" /\ pc' = "done"

WorkerStep(w) ==
    /\ w \in 1..Len(worker)
    /\ WorkerRunFile(w) \/ WorkerSend(w) \/ WorkerExit(w)

SpecRunFair ==
    /\ InitRun
    /\ [][NextRun]_vars
    /\ WF_vars(MainStep)
    /\ WF_pc(Reports)
    /\ \A w \in 1..MaxThreads : WF_vars(WorkerStep(w))

\* The Senders that are alive: main's own one while it spawns, and one per
\* worker that has not returned.
LiveSenders ==
    Cardinality({w \in 1..Len(worker) : worker[w].pc # "done"})
       + (IF pc = "spawn" THEN 1 ELSE 0)

\* C37: every spawned worker eventually sends its Summary, and main
\* eventually leaves the receive loop and reports; the receive loop ends
\* exactly when the channel is empty and main's Sender and every worker's
\* Sender are dropped, all Summaries being merged then; no state before the
\* end of main is without a next step.
C37_Terminates ==
    /\ <>(pc = "done")
    /\ \A w \in 1..MaxThreads :
          [](w \in 1..Len(worker) =>
                <>(w \in 1..Len(worker) /\ worker[w].pc \in {"exit", "done"}))
    /\ [](senders = LiveSenders)
    /\ [][(pc = "recv" /\ pc' = "report") =>
             /\ \A w \in 1..Len(worker) : worker[w].pc = "done"
             /\ rx = <<>>
             /\ Range(received) = 1..Len(worker)]_vars
    /\ []((pc = "recv" /\ rx = <<>> /\ LiveSenders = 0) => ENABLED RecvEnd)
    /\ [](pc \notin {"report", "done"} =>
             \/ ENABLED MainStep
             \/ \E w \in 1..Len(worker) : ENABLED WorkerStep(w))

\* C37 witness: main waits in the receive loop with an empty channel while
\* one worker has sent and returned and the other one still runs.
C37_Witness ==
    /\ pc = "recv"
    /\ rx = <<>>
    /\ Len(worker) = 2
    /\ worker[1].pc = "run"
    /\ worker[2].pc = "done"
    /\ received = <<2>>
    /\ senders = 1

\* C37 witness: main has reported after both workers returned.
C37_WitnessDone ==
    /\ pc = "done"
    /\ Len(worker) = 2
    /\ \A w \in 1..2 : worker[w].pc = "done"
    /\ senders = 0
    /\ Len(received) = 2

\* The qualified names of the attributes of element e of arena a.
AttrNamesOf(a, e) == {a[e].data.attrs[i].name : i \in 1..Len(a[e].data.attrs)}

\* C38: no two attributes of an element have equal qualified names; an
\* element comes from create_element without attributes, every set_attr on
\* it, whatever name it sets, adds exactly that name to the names of its
\* list, and only set_attr changes the list: the length of the list is the
\* number of distinct qualified names set so far.
C38_DistinctAttrNames ==
    /\ [](\A e \in 1..Len(arena) :
             IsElement(arena, e) =>
                LET attrs == arena[e].data.attrs
                IN  /\ \A i, j \in 1..Len(attrs) : attrs[i].name = attrs[j].name => i = j
                    /\ Len(attrs) = Cardinality(AttrNamesOf(arena, e))
                    /\ \A name \in AttrNames, value \in AttrValues :
                          LET a2 == set_attr(arena, e, [name |-> name, value |-> value])
                          IN  /\ AttrNamesOf(a2, e) = AttrNamesOf(arena, e) \cup {name}
                              /\ Len(a2[e].data.attrs) =
                                    Cardinality(AttrNamesOf(arena, e) \cup {name}))
    /\ [][/\ \A e \in (Len(arena) + 1)..Len(arena') :
                IsElement(arena', e) => arena'[e].data.attrs = <<>>
          /\ \A e \in 1..Len(arena) :
                (IsElement(arena, e) /\ arena'[e] # arena[e]) =>
                   \E name \in AttrNames, value \in AttrValues :
                      /\ arena' = set_attr(arena, e, [name |-> name, value |-> value])
                      /\ AttrNamesOf(arena', e) = AttrNamesOf(arena, e) \cup {name}
                      /\ Len(arena'[e].data.attrs) =
                            Cardinality(AttrNamesOf(arena, e) \cup {name})]_vars

\* C38 witness: an element on which a was set in the HTML namespace, then a
\* in the xlink namespace, then a in the HTML namespace again has two
\* attributes.
C38_Witness ==
    /\ Len(arena) = 2
    /\ IsElement(arena, 2)
    /\ arena[2].data.attrs =
          << [name |-> [ns |-> "Html", local |-> "a"], value |-> "2"],
             [name |-> [ns |-> "Other(xlink)", local |-> "a"], value |-> "1"] >>

====
